---- MODULE Spec2Model ----
(***************************************************************************)
(* Verification model of the smb-rs client core.                           *)
(*                                                                         *)
(*   SpecSession : Session / SessionMessageHandler (crates/smb/src/        *)
(*                 session.rs): bind, logoff, Drop and the routing of      *)
(*                 messages, as interleaved steps of concurrent callers.   *)
(*   SpecSign    : MessageSigner (session/signer.rs).                      *)
(*   SpecEncrypt : MessageEncryptor (session/encryptor_decryptor.rs).      *)
(*   SpecCodec   : encode / decode round trips of wire structures.         *)
(*   SpecChain   : ChainedItemList (smb-fscc/src/chained_list.rs);         *)
(*                 SpecChainFair adds that a started read runs on.         *)
(*   SpecAcl     : ACL ordering (smb-dtyp/src/security/acl.rs).            *)
(*   SpecSd      : SecurityDescriptor decoding (security_descriptor.rs).   *)
(*   SpecPlain   : PlainRequest / PlainResponse (smb-msg/src/plain.rs).    *)
(*   SpecHeader  : the sync and async forms of Header (header.rs).         *)
(*   SpecNegCtx  : NegotiateContext (smb-msg/src/negotiate.rs).            *)
(*   SpecCreateCtx   : CreateContextRequest (smb-msg/src/create.rs).       *)
(*   SpecDir         : directory iteration over QueryDirectory responses   *)
(*                     (smb-msg/src/query_dir.rs); SpecDirFair adds that   *)
(*                     the iteration and the server take their steps.      *)
(*   SpecCopy        : the copy command's choice of method (copy.rs).      *)
(*   SpecCompressed  : CompressedMessage (smb-msg/src/compressed.rs).      *)
(*   SpecDfs         : version 3 DFS referral entries (dfsc.rs).           *)
(*   SpecSetSecurity : the set-security command (smb-cli security.rs).     *)
(*   SpecFsctl       : IoctlResponse::parse_fsctl (ioctl/msg.rs).          *)
(*   SpecProgress    : do_copy and its progress reporter (smb-cli copy.rs);*)
(*                     SpecProgressFair adds fair scheduling.              *)
(***************************************************************************)
EXTENDS Integers, Sequences, FiniteSets, TLC

(***************************************************************************)
(* Bounds of the model.                                                    *)
(***************************************************************************)
\* Number of concurrent callers holding a reference to the session.
NumCallers == 2
\* Number of operations (bind / logoff) the callers issue in a run, all told.
MaxOps == 3

(***************************************************************************)
(* Program constants.                                                      *)
(***************************************************************************)
\* session.rs:64  const FIRST_CHANNEL_ID: u32 = 0;
FIRST_CHANNEL_ID == 0
Callers == 1 .. NumCallers
\* The destructor runs as one more "caller": the thread that drops the last
\* reference (sync build) or the spawned tokio task (async build).
Dropper == 0
Procs == Callers \cup {Dropper}

\* The connection the session was created on, and the connections a bind may
\* be given (ConnectionInfo.negotiation.dialect_rev, ConnectionInfo.client_guid).
Dialects == {"Smb0311", "Smb030"}
Guids == {"guidA", "guidB"}
SessionConn == [dialect |-> "Smb0311", guid |-> "guidA"]
Conns == [dialect : Dialects, guid : Guids]

VARIABLES
    build,            \* "sync" | "async": the cfg(feature = "async") of the build
    sessState,        \* SessionInfo state: "Ready" | "Invalid"
    allowUnsigned,    \* SessionInfo::allow_unsigned(): guest / anonymous session
    dropping,         \* SessionMessageHandler.dropping, per handler ("main", "temp")
    channelCounter,   \* Session.channel_counter
    altChannels,      \* Session.alt_channels: channel id -> connection
    channelHandlers,  \* SessionMessageHandler.channel_handlers: id -> handler
    thr,              \* per caller: the operation in progress and its position
    wire,             \* what reached the server: count of LogoffRequest, of binding setups
    errorLog,         \* number of "Failed to logoff" lines logged
    dropped,          \* the handler's Drop::drop has started
    hist              \* history: order of logoff invocations, successful binds

sessVars == <<build, sessState, allowUnsigned, dropping, channelCounter, altChannels,
              channelHandlers, thr, wire, errorLog, dropped, hist>>

\* The message being signed and verified (session/signer.rs).
VARIABLES
    sgAlgo,     \* the negotiated signing algorithm
    sgHeader,   \* the sender's Header
    sgData,     \* the IoVec: a sequence of buffers, the first starting with the header
    sgStage,    \* "built" | "signed" | "verified"
    sgResult,   \* result of verify_signature
    sgGhost     \* history: was the message signed, was it modified in transit,
                \* the signature the header held before signing

signVars == <<sgAlgo, sgHeader, sgData, sgStage, sgResult, sgGhost>>

\* The messages encrypted in a session (session/encryptor_decryptor.rs).
VARIABLES
    encAlgo,    \* the negotiated cipher
    encSent     \* the encrypted messages of the session, in order

encVars == <<encAlgo, encSent>>

\* The value going through the codec.
VARIABLES
    cdKind,     \* the structure
    cdValue,    \* the value m handed to the encoder
    cdBytes,    \* encode(m)
    cdOut,      \* decode(encode(m))
    cdStage     \* "value" | "encoded" | "failed" | "panicked" | "decoded"

codecVars == <<cdKind, cdValue, cdBytes, cdOut, cdStage>>

\* A chained list on its way through a stream (smb-fscc/src/chained_list.rs).
VARIABLES
    chT,         \* the item type T of ChainedItemList<T, OFFSET_PAD>
    chBase,      \* the stream position at which the list starts
    chSrc,       \* the values handed to the writer
    chStream,    \* the bytes of the stream
    chPos,       \* the reader's position
    chValues,    \* the values the reader has pushed
    chStarts,    \* history: the positions at which the reader began an element
    chStage,     \* "value" | "written" | "reading" | "ok" | "err"
    chResult,    \* the error read_options returned
    chCorrupted  \* history: the bytes were changed after they were written

chainVars == <<chT, chBase, chSrc, chStream, chPos, chValues, chStarts, chStage,
               chResult, chCorrupted>>

\* The access control list (smb-dtyp/src/security/acl.rs).
VARIABLES
    aclAce,       \* ACL::ace, the vector of ACEs
    aclPrev,      \* the vector the last call handed to sort_by
    aclLastOp     \* "none", "order_aces" or "insert_ace"
aclVars == <<aclAce, aclPrev, aclLastOp>>

\* A security descriptor on the wire
\* (smb-dtyp/src/security/security_descriptor.rs).
VARIABLES
    sdBytes,      \* the bytes handed to SecurityDescriptor::read
    sdStage,      \* "received" or "decoded"
    sdResult      \* what read returned
sdVars == <<sdBytes, sdStage, sdResult>>

\* A plain message (smb-msg/src/plain.rs).
VARIABLES
    pmSide,       \* "Request" or "Response": PlainRequest / PlainResponse
    pmMsg,        \* the message built, [header, content]
    pmBytes,      \* the bytes written or received
    pmStage,      \* "start", "built", "written", "received", "read", "failed"
    pmOut         \* what read returned
pmVars == <<pmSide, pmMsg, pmBytes, pmStage, pmOut>>

\* A header on its own (smb-msg/src/header.rs).
VARIABLES
    hdHeader,     \* the Header value held by the sender
    hdBytes,      \* the bytes written or received
    hdStage,      \* "start", "written", "received", "read", "failed"
    hdOut         \* what read returned
hdVars == <<hdHeader, hdBytes, hdStage, hdOut>>

\* A negotiate context on the wire (smb-msg/src/negotiate.rs).
VARIABLES
    ncBytes,      \* the bytes handed to NegotiateContext::read
    ncStage,      \* "received", "decoded", "encoded"
    ncOut,        \* what read returned
    ncEncoded     \* the decoded context written again
ncVars == <<ncBytes, ncStage, ncOut, ncEncoded>>

\* A create context on the wire (smb-msg/src/create.rs).
VARIABLES
    ccBytes,      \* the chained item holding the context, as received
    ccDebug,      \* whether the build checks integer overflow
    ccStage,      \* "received" or "decoded"
    ccOut         \* what the read returned
ccVars == <<ccBytes, ccDebug, ccStage, ccOut>>

\* Iterating a directory (smb/tests/long_dir.rs, smb-msg/src/query_dir.rs).
VARIABLES
    dqEntries,    \* the names in the directory, in the server's order
    dqPattern,    \* the search pattern of the iteration
    dqBufLen,     \* output_buffer_length of every request
    dqCursor,     \* the server's enumeration position for the open
    dqStage,      \* "idle", "sent", "responded", "ended" or "failed"
    dqResponse,   \* the response in flight, [status, output_buffer]
    dqFound,      \* the names the iteration has yielded, in order
    dqRequests    \* the number of QueryDirectory requests sent
dqVars == <<dqEntries, dqPattern, dqBufLen, dqCursor, dqStage, dqResponse, dqFound,
            dqRequests>>

\* The copy command of the command line client (smb-cli/src/copy.rs).
VARIABLES
    cpFrom,       \* CopyCmd::from, the source path
    cpTo,         \* CopyCmd::to, the destination path
    cpFeature,    \* "async", "multi_threaded" or "single_threaded"
    cpMultichannel, \* client.config().connection.multichannel.is_enabled()
    cpStage,      \* "opened", "copied" or "failed"
    cpMethod,     \* "none", "srv_copy" or "do_copy"
    cpJobs,       \* the channel to jobs map handed to do_copy
    cpOps         \* the kinds of requests the copy sent to a server
cpVars == <<cpFrom, cpTo, cpFeature, cpMultichannel, cpStage, cpMethod, cpJobs, cpOps>>

\* A compressed message (smb-msg/src/compressed.rs).
VARIABLES
    cmMsg,        \* the CompressedMessage value
    cmStage,      \* "built", "encoded" or "failed"
    cmBytes,      \* the bytes written
    cmTotal       \* what total_size returned
cmVars == <<cmMsg, cmStage, cmBytes, cmTotal>>

\* A version 3 DFS referral entry on the wire (smb-msg/src/dfsc.rs).
VARIABLES
    dfEntry,      \* what the server put in the entry: flag, layout, strings
    dfBytes,      \* the bytes of the entry, as received
    dfStage,      \* "received" or "decoded"
    dfOut         \* what the read returned
dfVars == <<dfEntry, dfBytes, dfStage, dfOut>>

\* The set-security command of the command line client (smb-cli/src/security.rs).
VARIABLES
    ssDacl,       \* the DACL of the object as queried: NoDacl or Some(aces)
    ssRemove,     \* SetSecurityCmd::remove_dacl
    ssAdd,        \* SetSecurityCmd::add_dacl
    ssForce,      \* SetSecurityCmd::force
    ssStage,      \* "start", "set", "nothing" or "failed"
    ssNew         \* the ACEs of the DACL handed to set_security_info
ssVars == <<ssDacl, ssRemove, ssAdd, ssForce, ssStage, ssNew>>

\* An IOCTL response and its output buffer (smb-msg/src/ioctl/msg.rs).
VARIABLES
    fsCtlCode,    \* IoctlResponse::ctl_code
    fsOutBuffer,  \* IoctlResponse::out_buffer
    fsStage,      \* "received" or "parsed"
    fsOut         \* what parse_fsctl returned, or that it panicked
fsVars == <<fsCtlCode, fsOutBuffer, fsStage, fsOut>>

\* A parallel copy and its progress reporter (smb-cli/src/copy.rs).
VARIABLES
    pgTotal,      \* CopyState::total_size, in chunks
    pgCopied,     \* CopyState::bytes_copied, in chunks
    pgCopy,       \* start_parallel_copy: "running", "ok" or "failed"
    pgDoCopy,     \* do_copy: "copying", "joining", "returnedOk", "returnedErr"
    pgReporter    \* progress_loop: "polling", "sleeping" or "finished"
pgVars == <<pgTotal, pgCopied, pgCopy, pgDoCopy, pgReporter>>

\* What the actions of one component leave alone: the other components.
notSessVars == <<signVars, encVars, codecVars, chainVars, aclVars, sdVars, pmVars, hdVars, ncVars, ccVars, dqVars, cpVars, cmVars, dfVars, ssVars, fsVars, pgVars>>
notSignVars == <<sessVars, encVars, codecVars, chainVars, aclVars, sdVars, pmVars, hdVars, ncVars, ccVars, dqVars, cpVars, cmVars, dfVars, ssVars, fsVars, pgVars>>
notEncVars == <<sessVars, signVars, codecVars, chainVars, aclVars, sdVars, pmVars, hdVars, ncVars, ccVars, dqVars, cpVars, cmVars, dfVars, ssVars, fsVars, pgVars>>
notCodecVars == <<sessVars, signVars, encVars, chainVars, aclVars, sdVars, pmVars, hdVars, ncVars, ccVars, dqVars, cpVars, cmVars, dfVars, ssVars, fsVars, pgVars>>
notChainVars == <<sessVars, signVars, encVars, codecVars, aclVars, sdVars, pmVars, hdVars, ncVars, ccVars, dqVars, cpVars, cmVars, dfVars, ssVars, fsVars, pgVars>>
notAclVars == <<sessVars, signVars, encVars, codecVars, chainVars, sdVars, pmVars, hdVars, ncVars, ccVars, dqVars, cpVars, cmVars, dfVars, ssVars, fsVars, pgVars>>
notSdVars == <<sessVars, signVars, encVars, codecVars, chainVars, aclVars, pmVars, hdVars, ncVars, ccVars, dqVars, cpVars, cmVars, dfVars, ssVars, fsVars, pgVars>>
notPlainVars == <<sessVars, signVars, encVars, codecVars, chainVars, aclVars, sdVars, hdVars, ncVars, ccVars, dqVars, cpVars, cmVars, dfVars, ssVars, fsVars, pgVars>>
notHeaderVars == <<sessVars, signVars, encVars, codecVars, chainVars, aclVars, sdVars, pmVars, ncVars, ccVars, dqVars, cpVars, cmVars, dfVars, ssVars, fsVars, pgVars>>
notNegCtxVars == <<sessVars, signVars, encVars, codecVars, chainVars, aclVars, sdVars, pmVars, hdVars, ccVars, dqVars, cpVars, cmVars, dfVars, ssVars, fsVars, pgVars>>
notCreateCtxVars == <<sessVars, signVars, encVars, codecVars, chainVars, aclVars, sdVars, pmVars, hdVars, ncVars, dqVars, cpVars, cmVars, dfVars, ssVars, fsVars, pgVars>>
notDirVars == <<sessVars, signVars, encVars, codecVars, chainVars, aclVars, sdVars, pmVars, hdVars, ncVars, ccVars, cpVars, cmVars, dfVars, ssVars, fsVars, pgVars>>
notCopyVars == <<sessVars, signVars, encVars, codecVars, chainVars, aclVars, sdVars, pmVars, hdVars, ncVars, ccVars, dqVars, cmVars, dfVars, ssVars, fsVars, pgVars>>
notCompressedVars == <<sessVars, signVars, encVars, codecVars, chainVars, aclVars, sdVars, pmVars, hdVars, ncVars, ccVars, dqVars, cpVars, dfVars, ssVars, fsVars, pgVars>>
notDfsVars == <<sessVars, signVars, encVars, codecVars, chainVars, aclVars, sdVars, pmVars, hdVars, ncVars, ccVars, dqVars, cpVars, cmVars, ssVars, fsVars, pgVars>>
notSetSecurityVars == <<sessVars, signVars, encVars, codecVars, chainVars, aclVars, sdVars, pmVars, hdVars, ncVars, ccVars, dqVars, cpVars, cmVars, dfVars, fsVars, pgVars>>
notFsctlVars == <<sessVars, signVars, encVars, codecVars, chainVars, aclVars, sdVars, pmVars, hdVars, ncVars, ccVars, dqVars, cpVars, cmVars, dfVars, ssVars, pgVars>>
notProgressVars == <<sessVars, signVars, encVars, codecVars, chainVars, aclVars, sdVars, pmVars, hdVars, ncVars, ccVars, dqVars, cpVars, cmVars, dfVars, ssVars, fsVars>>

PrimaryHandler == [channel |-> FIRST_CHANNEL_ID, conn |-> SessionConn]

Idle == [op |-> "none", pc |-> "idle", h |-> "main", res |-> "none", chan |-> -1,
         conn |-> SessionConn, sent |-> 0, ord |-> 0, refuse |-> FALSE,
         failed |-> FALSE, by |-> -1, known |-> FALSE]

\* HashMap::insert: adds the key or replaces the value it had.
MapInsert(m, k, v) == [x \in (DOMAIN m) \cup {k} |-> IF x = k THEN v ELSE m[x]]

EmptyMap == [x \in {} |-> 0]

(***************************************************************************)
(* Session::create (session.rs:59-86) and SessionMessageHandler::new       *)
(* (session.rs:239-249): the state after construction.                     *)
(***************************************************************************)
InitialChannelCounterBug == FIRST_CHANNEL_ID
InitialChannelCounter == FIRST_CHANNEL_ID + 1

SessionInit ==
    /\ build \in {"sync", "async"}
    /\ sessState = "Ready"
    /\ allowUnsigned \in BOOLEAN
    /\ dropping = [h \in {"main", "temp"} |-> FALSE]
    /\ channelCounter = InitialChannelCounter
    /\ altChannels = EmptyMap
    /\ channelHandlers = MapInsert(EmptyMap, FIRST_CHANNEL_ID, PrimaryHandler)
    /\ thr = [p \in Procs |-> Idle]
    /\ wire = [logoff |-> 0, setup |-> 0]
    /\ errorLog = 0
    /\ dropped = FALSE
    /\ hist = [invocations |-> 0, bound |-> <<>>, ops |-> 0, returned |-> {}]

CanStart(p) ==
    /\ p \in Callers
    /\ ~dropped
    /\ thr[p].pc \in {"idle", "done"}
    /\ hist.ops < MaxOps

(***************************************************************************)
(* SessionMessageHandler::logoff (session.rs:251-284).                     *)
(***************************************************************************)
\* AtomicBool::swap(true, SeqCst): the old value and the new one, atomically.
AtomicSwapNoSet(flag) == [old |-> flag, new |-> flag]
AtomicSwap(flag) == [old |-> flag, new |-> TRUE]

\* session.rs:252-257: the first statement of logoff, on handler h.
LogoffSwapStep(p, h, first) ==
    LET s == AtomicSwap(dropping[h]) IN
    /\ dropping' = [dropping EXCEPT ![h] = s.new]
    /\ hist' = IF first
               THEN [hist EXCEPT !.invocations = @ + 1,
                                 !.ops = IF p \in Callers THEN @ + 1 ELSE @]
               ELSE hist
    /\ thr' = [thr EXCEPT ![p] =
                 [@ EXCEPT !.op = "logoff", !.h = h, !.sent = IF first THEN 0 ELSE @,
                           !.failed = IF first THEN FALSE ELSE @,
                           !.ord = IF first THEN hist.invocations + 1 ELSE @,
                           !.pc = IF s.old THEN "done" ELSE "check",
                           !.res = IF s.old THEN "Ok" ELSE "none"]]

\* Session::logoff (session.rs:191-193) entering SessionMessageHandler::logoff.
LogoffSwap(p) ==
    /\ CanStart(p)
    /\ LogoffSwapStep(p, "main", TRUE)
    /\ UNCHANGED <<notSessVars,
                   build, sessState, allowUnsigned, channelCounter, altChannels,
                   channelHandlers, wire, errorLog, dropped>>

\* What the caller of logoff does with an Err: Session::logoff returns it
\* ("Err"), the destructor logs it and returns normally ("Logged")
\* (session.rs:293-295, 368-370).
LogsErrorNever(p) == FALSE
LogsError(p) == p = Dropper

\* session.rs:259-266: skip when the session is not ready.
LogoffCheckReady(p) ==
    /\ thr[p].op = "logoff" /\ thr[p].pc = "check"
    /\ thr' = [thr EXCEPT ![p] =
                 IF sessState # "Ready"
                 THEN [@ EXCEPT !.pc = IF p = Dropper /\ build = "async"
                                       THEN "tempdrop" ELSE "done",
                                !.res = "Ok"]
                 ELSE [@ EXCEPT !.pc = "send"]]
    /\ UNCHANGED <<notSessVars,
                   build, sessState, allowUnsigned, dropping, channelCounter,
                   altChannels, channelHandlers, wire, errorLog, dropped, hist>>

\* session.rs:270: send_recv(LogoffRequest).await?  The request may fail to
\* leave (sent = FALSE), or leave and the exchange fail, or succeed.
LogoffSendRecv(p) ==
    /\ thr[p].op = "logoff" /\ thr[p].pc = "send"
    /\ \E sent \in BOOLEAN, ok \in BOOLEAN :
        /\ ok => sent
        /\ wire' = [wire EXCEPT !.logoff = IF sent THEN @ + 1 ELSE @]
        /\ thr' = [thr EXCEPT ![p] =
                     IF ok
                     THEN [@ EXCEPT !.pc = "invalidate", !.sent = @ + 1]
                     ELSE [@ EXCEPT !.pc = IF p = Dropper /\ build = "async"
                                           THEN "tempdrop" ELSE "done",
                                    !.res = IF LogsError(p) THEN "Logged" ELSE "Err",
                                    !.failed = TRUE,
                                    !.sent = IF sent THEN @ + 1 ELSE @]]
        /\ errorLog' = IF ~ok /\ LogsError(p) THEN errorLog + 1 ELSE errorLog
    /\ UNCHANGED <<notSessVars,
                   build, sessState, allowUnsigned, dropping, channelCounter,
                   altChannels, channelHandlers, dropped, hist>>

\* session.rs:272-283: invalidate the session object, return Ok.
LogoffInvalidate(p) ==
    /\ thr[p].op = "logoff" /\ thr[p].pc = "invalidate"
    /\ sessState' = "Invalid"
    /\ thr' = [thr EXCEPT ![p] =
                 [@ EXCEPT !.pc = IF p = Dropper /\ build = "async"
                                  THEN "tempdrop" ELSE "done",
                           !.res = "Ok"]]
    /\ UNCHANGED <<notSessVars,
                   build, allowUnsigned, dropping, channelCounter, altChannels,
                   channelHandlers, wire, errorLog, dropped, hist>>

(***************************************************************************)
(* Drop for SessionMessageHandler (session.rs:365-399).  The destructor    *)
(* runs when the last reference is released: no call through &self is in   *)
(* progress, and none starts afterwards.                                   *)
(***************************************************************************)
NoCallInProgress == \A p \in Callers : thr[p].pc \in {"idle", "done"}

\* cfg(not(feature = "async")): drop calls self.logoff() (session.rs:367-371).
DropSync ==
    /\ build = "sync" /\ ~dropped /\ NoCallInProgress
    /\ dropped' = TRUE
    /\ LogoffSwapStep(Dropper, "main", TRUE)
    /\ UNCHANGED <<notSessVars,
                   build, sessState, allowUnsigned, channelCounter, altChannels,
                   channelHandlers, wire, errorLog>>

\* cfg(feature = "async"): swap the flag, return if it was set, else spawn a
\* task owning a temporary handler whose flag is false (session.rs:376-398).
DropAsync ==
    /\ build = "async" /\ ~dropped /\ NoCallInProgress
    /\ dropped' = TRUE
    /\ LET s == AtomicSwap(dropping["main"]) IN
        /\ dropping' = [dropping EXCEPT !["main"] = s.new, !["temp"] = FALSE]
        /\ hist' = [hist EXCEPT !.invocations = @ + 1]
        /\ thr' = [thr EXCEPT ![Dropper] =
                     [@ EXCEPT !.op = "logoff", !.h = "temp", !.sent = 0,
                               !.ord = hist.invocations + 1,
                               !.pc = IF s.old THEN "done" ELSE "spawned",
                               !.res = IF s.old THEN "Ok" ELSE "none"]]
    /\ UNCHANGED <<notSessVars,
                   build, sessState, allowUnsigned, channelCounter, altChannels,
                   channelHandlers, wire, errorLog>>

\* The spawned task: temp_handler.logoff_async() enters logoff on the
\* temporary handler (session.rs:396, 292-296).
TaskLogoffSwap ==
    /\ thr[Dropper].pc = "spawned"
    /\ LogoffSwapStep(Dropper, "temp", FALSE)
    /\ UNCHANGED <<notSessVars,
                   build, sessState, allowUnsigned, channelCounter, altChannels,
                   channelHandlers, wire, errorLog, dropped>>

\* The task ends and the temporary handler is dropped in turn: its own
\* Drop::drop runs (session.rs:376-398) and would spawn again were its flag clear.
TempHandlerDrop ==
    /\ thr[Dropper].pc = "tempdrop"
    /\ LET s == AtomicSwap(dropping["temp"]) IN
        /\ dropping' = [dropping EXCEPT !["temp"] = IF s.old THEN s.new ELSE FALSE]
        /\ thr' = [thr EXCEPT ![Dropper] =
                     [@ EXCEPT !.pc = IF s.old THEN "done" ELSE "spawned"]]
    /\ UNCHANGED <<notSessVars,
                   build, sessState, allowUnsigned, channelCounter, altChannels,
                   channelHandlers, wire, errorLog, dropped, hist>>

(***************************************************************************)
(* Session::bind (session.rs:91-151).                                      *)
(***************************************************************************)
\* session.rs:97-121: the four refusals, in the order the code tests them.
BindRefusesNoUnsignedCheck(conn, state, unsigned) ==
    \/ SessionConn.dialect # conn.dialect
    \/ SessionConn.guid # conn.guid
    \/ state # "Ready"
BindRefuses(conn, state, unsigned) ==
    \/ SessionConn.dialect # conn.dialect
    \/ SessionConn.guid # conn.guid
    \/ state # "Ready"
    \/ unsigned

BindCheck(p) ==
    /\ CanStart(p)
    /\ \E conn \in Conns :
        thr' = [thr EXCEPT ![p] =
                  [@ EXCEPT !.op = "bind", !.conn = conn, !.chan = -1, !.ord = 0,
                            !.sent = 0, !.h = "main", !.failed = FALSE,
                            \* the condition of the claim, from the state bind is called in
                            !.refuse = \/ sessState # "Ready"
                                       \/ allowUnsigned
                                       \/ conn.dialect # SessionConn.dialect
                                       \/ conn.guid # SessionConn.guid,
                            !.pc = IF BindRefuses(conn, sessState, allowUnsigned)
                                   THEN "done" ELSE "alloc",
                            !.res = IF BindRefuses(conn, sessState, allowUnsigned)
                                    THEN "InvalidState" ELSE "none"]]
    /\ hist' = [hist EXCEPT !.ops = @ + 1]
    /\ UNCHANGED <<notSessVars,
                   build, sessState, allowUnsigned, dropping, channelCounter,
                   altChannels, channelHandlers, wire, errorLog, dropped>>

\* AtomicU32::fetch_add(1, SeqCst): returns the old value and adds one, as one
\* atomic step.  The counter wraps at 2^32, which lies beyond the MaxOps binds
\* of a run (and beyond the integers of the model checker), so
\* the wrap is not taken here.
FetchAddStale(counter) == [old |-> counter, new |-> counter]
FetchAdd(counter) == [old |-> counter, new |-> counter + 1]

\* session.rs:123-125.
BindAlloc(p) ==
    /\ thr[p].op = "bind" /\ thr[p].pc = "alloc"
    /\ LET f == FetchAdd(channelCounter) IN
        /\ channelCounter' = f.new
        /\ thr' = [thr EXCEPT ![p] = [@ EXCEPT !.chan = f.old, !.pc = "setup"]]
    /\ UNCHANGED <<notSessVars,
                   build, sessState, allowUnsigned, dropping, altChannels,
                   channelHandlers, wire, errorLog, dropped, hist>>

\* session.rs:127-136: the binding session setup on the new connection, which
\* the server may refuse, and the Channel built from it.
BindSetup(p) ==
    /\ thr[p].op = "bind" /\ thr[p].pc = "setup"
    /\ wire' = [wire EXCEPT !.setup = @ + 1]
    /\ \E ok \in BOOLEAN :
        thr' = [thr EXCEPT ![p] =
                  IF ok THEN [@ EXCEPT !.pc = "insertAlt", !.sent = @ + 1]
                  ELSE [@ EXCEPT !.pc = "done", !.res = "Err", !.sent = @ + 1]]
    /\ UNCHANGED <<notSessVars,
                   build, sessState, allowUnsigned, dropping, channelCounter,
                   altChannels, channelHandlers, errorLog, dropped, hist>>

\* session.rs:139-142.
BindInsertAlt(p) ==
    /\ thr[p].op = "bind" /\ thr[p].pc = "insertAlt"
    /\ altChannels' = MapInsert(altChannels, thr[p].chan, thr[p].conn)
    /\ hist' = [hist EXCEPT !.bound = Append(@, [chan |-> thr[p].chan,
                                                  conn |-> thr[p].conn,
                                                  state |-> sessState])]
    /\ thr' = [thr EXCEPT ![p] = [@ EXCEPT !.pc = "insertHandler"]]
    /\ UNCHANGED <<notSessVars,
                   build, sessState, allowUnsigned, dropping, channelCounter,
                   channelHandlers, wire, errorLog, dropped>>

\* session.rs:144-150.
BindInsertHandler(p) ==
    /\ thr[p].op = "bind" /\ thr[p].pc = "insertHandler"
    /\ channelHandlers' = MapInsert(channelHandlers, thr[p].chan,
                                    [channel |-> thr[p].chan, conn |-> thr[p].conn])
    /\ thr' = [thr EXCEPT ![p] = [@ EXCEPT !.pc = "done", !.res = "Ok"]]
    \* Ok(new_channel_id): the id is returned to the caller.
    /\ hist' = [hist EXCEPT !.returned = @ \cup {thr[p].chan}]
    /\ UNCHANGED <<notSessVars,
                   build, sessState, allowUnsigned, dropping, channelCounter,
                   altChannels, wire, errorLog, dropped>>

(***************************************************************************)
(* SessionMessageHandler::_with_channel, sendo and recvo                    *)
(* (session.rs:298-330).                                                   *)
(***************************************************************************)
\* OutgoingMessage::channel_id / ReceiveOptions::channel_id: None, or an id.
\* The ids a run can have bound when a message is sent lie below MaxOps.
NoChannelId == -1
MessageChannelIds == {NoChannelId} \cup (0 .. MaxOps - 1)

\* session.rs:303-315 with a defect: every message goes to the primary.
WithChannelPrimaryOnly(handlers, channel_id) == [ok |-> TRUE, by |-> FIRST_CHANNEL_ID]
\* session.rs:303-315: the handler the work is handed to, or ChannelNotFound.
WithChannel(handlers, channel_id) ==
    IF channel_id = NoChannelId \/ channel_id = FIRST_CHANNEL_ID
    THEN [ok |-> TRUE, by |-> FIRST_CHANNEL_ID]
    ELSE IF channel_id \in DOMAIN handlers
    THEN [ok |-> TRUE, by |-> handlers[channel_id].channel]
    ELSE [ok |-> FALSE, by |-> -1]

\* sendo / recvo: a message for channel_id is handed to _with_channel,
\* which holds the read lock of channel_handlers while the work is done.
SendOrRecv(p) ==
    /\ CanStart(p)
    /\ \E channel_id \in MessageChannelIds :
        LET w == WithChannel(channelHandlers, channel_id) IN
        thr' = [thr EXCEPT ![p] =
                  [@ EXCEPT !.op = "send", !.chan = channel_id, !.ord = 0, !.sent = 0,
                            !.h = "main", !.failed = FALSE, !.refuse = FALSE,
                            !.conn = SessionConn,
                            \* history: had a bind returned this id to its caller
                            !.known = channel_id \in hist.returned,
                            !.by = w.by,
                            !.pc = "done",
                            !.res = IF w.ok THEN "Ok" ELSE "ChannelNotFound"]]
    /\ hist' = [hist EXCEPT !.ops = @ + 1]
    /\ UNCHANGED <<notSessVars,
                   build, sessState, allowUnsigned, dropping, channelCounter,
                   altChannels, channelHandlers, wire, errorLog, dropped>>

(***************************************************************************)
(* Bytes.  binrw writes every integer little-endian (brw(little)).         *)
(***************************************************************************)
RECURSIVE LE(_, _)
LE(n, k) == IF k = 0 THEN <<>> ELSE <<n % 256>> \o LE(n \div 256, k - 1)

RECURSIVE FromLE(_)
FromLE(bytes) == IF bytes = <<>> THEN 0 ELSE bytes[1] + 256 * FromLE(Tail(bytes))

Zeros(k) == [i \in 1 .. k |-> 0]

\* s[from .. to) with 0-based positions, as a Rust slice.
Slice(s, from, to) == SubSeq(s, from + 1, to)

\* Writing `bytes` into a zeroed fixed array of n bytes (Cursor::new([0; n])).
IntoArray(bytes, n) == [i \in 1 .. n |-> IF i <= Len(bytes) THEN bytes[i] ELSE 0]

RECURSIVE Flatten(_)
Flatten(bufs) == IF bufs = <<>> THEN <<>> ELSE Head(bufs) \o Flatten(Tail(bufs))

\* Option<T>
None == [some |-> FALSE, v |-> 0]
Some(x) == [some |-> TRUE, v |-> x]

(***************************************************************************)
(* Header (crates/smb-msg/src/header.rs:184-240).                          *)
(***************************************************************************)
\* header.rs:224  pub const STRUCT_SIZE: usize = 64;
STRUCT_SIZE == 64
\* header.rs:186  magic(b"\xfeSMB")
HeaderMagic == <<254, 83, 77, 66>>
\* header.rs:14-35: the command codes, 0 ..= 0x13.
LastCommand == 19
CommandCancel == 12

\* HeaderFlags (header.rs:247-267): bit 0 server_to_redir, bit 1 async_command.
ServerToRedir(flags) == flags % 2 = 1
AsyncCommand(flags) == (flags \div 2) % 2 = 1

\* u64::MAX (plain.rs:308), which has no integer here: kept as -1 and written
\* and read as eight bytes of 255.  Every other u64 of the model is small.
U64_MAX == -1
WriteU64(n) == IF n = U64_MAX THEN [i \in 1 .. 8 |-> 255] ELSE LE(n, 8)
ReadU64(bytes) == IF bytes = [i \in 1 .. 8 |-> 255] THEN U64_MAX ELSE FromLE(bytes)

\* Option<T> writes its value when Some and nothing when None.
WriteOption(opt, k) == IF opt.some THEN LE(opt.v, k) ELSE <<>>

\* BinWrite for Header: the fields in order, with the macro's
\* _structure_size (smb-msg-derive/src/lib.rs:72-100), the bw(assert)s of
\* tree_id and async_id and the brw(if)s on the async_command flag.
WriteHeader(h) ==
    LET async == AsyncCommand(h.flags)
        assertTree == h.tree_id.some # async
        assertAsync == (~h.tree_id.some) = async
        bytes == HeaderMagic \o LE(STRUCT_SIZE, 2) \o LE(h.credit_charge, 2)
                 \o LE(h.status, 4) \o LE(h.command, 2) \o LE(h.credit_request, 2)
                 \o LE(h.flags, 4) \o LE(h.next_command, 4) \o WriteU64(h.message_id)
                 \o (IF ~async THEN LE(0, 4) ELSE <<>>)
                 \o WriteOption(h.tree_id, 4)
                 \o (IF async THEN WriteOption(h.async_id, 8) ELSE <<>>)
                 \o LE(h.session_id, 8) \o LE(h.signature, 16)
    IN  IF assertTree /\ assertAsync
        THEN [ok |-> TRUE, bytes |-> bytes]
        ELSE [ok |-> FALSE, bytes |-> <<>>]

\* BinRead for Header: magic, the br(assert) on _structure_size, the command
\* enum, and tree_id or async_id by the async_command flag.
ReadHeader(b) ==
    IF Len(b) < STRUCT_SIZE \/ Slice(b, 0, 4) # HeaderMagic
       \/ FromLE(Slice(b, 4, 6)) # STRUCT_SIZE
       \/ FromLE(Slice(b, 12, 14)) > LastCommand
    THEN [ok |-> FALSE]
    ELSE LET flags == FromLE(Slice(b, 16, 20))
             async == AsyncCommand(flags)
         IN [ok |-> TRUE,
             value |-> [credit_charge |-> FromLE(Slice(b, 6, 8)),
                        status |-> FromLE(Slice(b, 8, 12)),
                        command |-> FromLE(Slice(b, 12, 14)),
                        credit_request |-> FromLE(Slice(b, 14, 16)),
                        flags |-> flags,
                        next_command |-> FromLE(Slice(b, 20, 24)),
                        message_id |-> ReadU64(Slice(b, 24, 32)),
                        tree_id |-> IF ~async THEN Some(FromLE(Slice(b, 36, 40)))
                                    ELSE None,
                        async_id |-> IF async THEN Some(FromLE(Slice(b, 32, 40)))
                                     ELSE None,
                        session_id |-> FromLE(Slice(b, 40, 48)),
                        signature |-> FromLE(Slice(b, 48, 64))]]

(***************************************************************************)
(* MessageSigner (crates/smb/src/session/signer.rs).                       *)
(***************************************************************************)
\* Bounds of the signing model.
\* Longest payload, in bytes, that follows the header.
MaxPayload == 2
\* Largest byte value of a payload byte, and the value a tampered byte takes.
MaxByte == 1

\* crypto::SigningAlgo (start / update / finalize): a keyed hash of the bytes
\* it is fed; AES-GMAC also derives its nonce from the header's message id,
\* direction and command in start().
SigningAlgos == {"HmacSha256", "AesGmac"}
HashModulus == 65521
SigStart(algo, h) ==
    [n |-> 0,
     acc |-> IF algo = "AesGmac"
             THEN (1 + 4 * h.message_id + (IF ServerToRedir(h.flags) THEN 1 ELSE 0)
                     + (IF h.command = CommandCancel THEN 2 ELSE 0)) % HashModulus
             ELSE 7]
\* Weighted sum of bytes[lo .. hi], the byte at index i being the (n + i)-th
\* byte fed to the algorithm.
RECURSIVE SigSum(_, _, _, _)
SigSum(bytes, n, lo, hi) ==
    IF lo > hi THEN 0
    ELSE IF lo = hi THEN (((n + lo) * 37 + 11) % 251) * (bytes[lo] + 1)
    ELSE LET mid == (lo + hi) \div 2
         IN SigSum(bytes, n, lo, mid) + SigSum(bytes, n, mid + 1, hi)
SigUpdate(st, bytes) ==
    [n |-> st.n + Len(bytes),
     acc |-> (st.acc + SigSum(bytes, st.n, 1, Len(bytes))) % HashModulus]
SigFinalize(st) == st.acc

\* signer.rs:51-75 with a defect: the signature field is not zeroed.
CalculateSignatureNoZero(algo, header, data) ==
    LET w == WriteHeader(header)
    IN  IF ~w.ok THEN [ok |-> FALSE, sig |-> 0, header |-> header]
        ELSE LET st0 == SigStart(algo, header)
                 st1 == SigUpdate(st0, IntoArray(w.bytes, STRUCT_SIZE))
                 st2 == IF Len(data[1]) >= STRUCT_SIZE
                        THEN SigUpdate(st1, Slice(data[1], STRUCT_SIZE, Len(data[1])))
                        ELSE st1
                 st3 == SigUpdate(st2, Flatten(Tail(data)))
             IN [ok |-> TRUE, sig |-> SigFinalize(st3), header |-> header]

\* signer.rs:51-75 with a defect: the saved signature is not put back.
CalculateSignatureNoRestore(algo, header, data) ==
    LET zeroed == [header EXCEPT !.signature = 0]
        w == WriteHeader(zeroed)
    IN  IF ~w.ok THEN [ok |-> FALSE, sig |-> 0, header |-> zeroed]
        ELSE LET st0 == SigStart(algo, zeroed)
                 st1 == SigUpdate(st0, IntoArray(w.bytes, STRUCT_SIZE))
                 st2 == IF Len(data[1]) >= STRUCT_SIZE
                        THEN SigUpdate(st1, Slice(data[1], STRUCT_SIZE, Len(data[1])))
                        ELSE st1
                 st3 == SigUpdate(st2, Flatten(Tail(data)))
             IN [ok |-> TRUE, sig |-> SigFinalize(st3), header |-> zeroed]

\* MessageSigner::_calculate_signature (signer.rs:51-75).  Returns the
\* signature and the header as the call leaves it (&mut Header): when the
\* header cannot be written the `?` returns before the saved signature is
\* put back.
CalculateSignature(algo, header, data) ==
    LET signature_backup == header.signature
        zeroed == [header EXCEPT !.signature = 0]
        w == WriteHeader(zeroed)
        restored == [zeroed EXCEPT !.signature = signature_backup]
    IN  IF ~w.ok THEN [ok |-> FALSE, sig |-> 0, header |-> zeroed]
        ELSE LET st0 == SigStart(algo, restored)
                 st1 == SigUpdate(st0, IntoArray(w.bytes, STRUCT_SIZE))
                 st2 == IF Len(data[1]) >= STRUCT_SIZE
                        THEN SigUpdate(st1, Slice(data[1], STRUCT_SIZE, Len(data[1])))
                        ELSE st1
                 st3 == SigUpdate(st2, Flatten(Tail(data)))
             IN [ok |-> TRUE, sig |-> SigFinalize(st3), header |-> restored]

\* MessageSigner::sign_message (signer.rs:37-49): the header and the iovec
\* as the call leaves them.
SignMessageResult(algo, header, data) ==
    LET c == CalculateSignature(algo, header, data)
    IN  IF ~c.ok THEN [ok |-> FALSE, header |-> c.header, data |-> data]
        ELSE LET signed == [c.header EXCEPT !.signature = c.sig]
                 w == WriteHeader(signed)
                 first == data[1]
                 patched == [i \in 1 .. Len(first) |->
                               IF i <= Len(w.bytes) THEN w.bytes[i] ELSE first[i]]
             IN IF ~w.ok THEN [ok |-> FALSE, header |-> signed, data |-> data]
                ELSE [ok |-> TRUE, header |-> signed,
                      data |-> [data EXCEPT ![1] = patched]]

\* MessageSigner::verify_signature (signer.rs:26-32).
VerifySignatureResult(algo, header, data) ==
    LET c == CalculateSignature(algo, header, data)
    IN  IF ~c.ok THEN "EncodeError"
        ELSE IF c.sig # c.header.signature THEN "SignatureVerificationFailed"
        ELSE "Ok"


\* Signature values a header may hold before it is signed.
SigSamples == {0, 77}

\* Well-formed headers: a sync header with a tree id, an async one with an async id.
HeaderSamples ==
    { [credit_charge |-> 1, status |-> st, command |-> cmd, credit_request |-> 1,
       flags |-> fl, next_command |-> 0, message_id |-> 8,
       tree_id |-> IF AsyncCommand(fl) THEN None ELSE Some(5),
       async_id |-> IF AsyncCommand(fl) THEN Some(8) ELSE None,
       session_id |-> 33, signature |-> sig] :
         st \in {0}, cmd \in {2, CommandCancel}, fl \in {0, 1, 3, 19},
         sig \in SigSamples }

RECURSIVE SeqsUpTo(_, _)
SeqsUpTo(S, n) ==
    IF n = 0 THEN {<<>>}
    ELSE LET shorter == SeqsUpTo(S, n - 1)
         IN shorter \cup {Append(q, x) : q \in {r \in shorter : Len(r) = n - 1}, x \in S}

Payloads == SeqsUpTo(0 .. MaxByte, MaxPayload)

\* The message as the sender serialised it: the header at the start of the
\* first buffer, the payload after it or in a second buffer.
SignInit ==
    /\ sgAlgo \in SigningAlgos
    /\ sgHeader \in HeaderSamples
    /\ \E pl \in Payloads, split \in BOOLEAN :
         sgData = IF split THEN <<WriteHeader(sgHeader).bytes, pl>>
                  ELSE <<WriteHeader(sgHeader).bytes \o pl>>
    /\ sgStage = "built"
    /\ sgResult = "none"
    /\ sgGhost = [signed |-> FALSE, tampered |-> FALSE, prior |-> 0]

SignMessage ==
    /\ sgStage = "built"
    /\ LET r == SignMessageResult(sgAlgo, sgHeader, sgData) IN
        /\ sgHeader' = r.header
        /\ sgData' = r.data
        /\ sgStage' = IF r.ok THEN "signed" ELSE "failed"
        /\ sgGhost' = [sgGhost EXCEPT !.signed = r.ok, !.prior = sgHeader.signature]
    /\ UNCHANGED <<notSignVars, sgAlgo, sgResult>>

\* Positions of the framed message a fault in transit may hit: the message id,
\* the signature, the first payload byte.
TamperPositions == {25, 49, STRUCT_SIZE + 1}

\* The network alters one byte of the message.
Tamper ==
    /\ sgStage \in {"built", "signed"}
    /\ ~sgGhost.tampered
    /\ \E pos \in TamperPositions, b \in 0 .. MaxByte + 1 :
        /\ pos <= Len(sgData[1])
        /\ sgData[1][pos] # b
        /\ sgData' = [sgData EXCEPT ![1][pos] = b]
    /\ sgGhost' = [sgGhost EXCEPT !.tampered = TRUE]
    /\ UNCHANGED <<notSignVars, sgAlgo, sgHeader, sgStage, sgResult>>

\* The receiver reads the header from the start of the first buffer and
\* verifies the message.
ReceiveAndVerify ==
    /\ sgStage \in {"built", "signed"}
    /\ LET rd == ReadHeader(Slice(sgData[1], 0, STRUCT_SIZE)) IN
        sgResult' = IF ~rd.ok THEN "DecodeError"
                    ELSE VerifySignatureResult(sgAlgo, rd.value, sgData)
    /\ sgStage' = "verified"
    /\ UNCHANGED <<notSignVars, sgAlgo, sgHeader, sgData, sgGhost>>

SignNext == SignMessage \/ Tamper \/ ReceiveAndVerify

(***************************************************************************)
(* MessageEncryptor (crates/smb/src/session/encryptor_decryptor.rs) and    *)
(* EncryptedHeader (crates/smb-msg/src/encrypted.rs).                      *)
(***************************************************************************)
\* Bounds of the encryption model.
\* Number of messages encrypted in one session.
MaxEncrypted == 2
\* Largest value of a byte drawn from the random generator.
MaxRandomByte == 1

\* encrypted.rs:7   const SIGNATURE_SIZE: usize = 16;
SIGNATURE_SIZE == 16
\* encrypted.rs:34  const MAGIC_SIZE: usize = 4;
MAGIC_SIZE == 4
\* encrypted.rs:12  pub type EncryptionNonce = [u8; 16];
NONCE_SIZE == 16
\* encrypted.rs:16  magic(b"\xfdSMB")
EncryptedMagic == <<253, 83, 77, 66>>
\* encrypted.rs:35-41
ENC_STRUCTURE_SIZE == MAGIC_SIZE + SIGNATURE_SIZE + NONCE_SIZE + 4 + 2 + 2 + 8
\* encrypted.rs:42
AEAD_BYTES_SIZE == ENC_STRUCTURE_SIZE - MAGIC_SIZE - SIGNATURE_SIZE

\* BinWrite for EncryptedHeader (encrypted.rs:15-31): reserved is written as
\* zero and _flags as 1.
WriteEncryptedHeader(h) ==
    EncryptedMagic \o LE(h.signature, SIGNATURE_SIZE) \o h.nonce
    \o LE(h.original_message_size, 4) \o LE(0, 2) \o LE(1, 2) \o LE(h.session_id, 8)

\* encrypted.rs:48-54 with a defect: the slice starts after the magic only.
AeadBytesWithSignature(h) ==
    Slice(IntoArray(WriteEncryptedHeader(h), ENC_STRUCTURE_SIZE),
          MAGIC_SIZE, ENC_STRUCTURE_SIZE)

\* EncryptedHeader::aead_bytes (encrypted.rs:48-54).
AeadBytes(h) ==
    Slice(IntoArray(WriteEncryptedHeader(h), ENC_STRUCTURE_SIZE),
          MAGIC_SIZE + SIGNATURE_SIZE, ENC_STRUCTURE_SIZE)

\* crypto::EncryptingAlgo: nonce_size() is 11 bytes for AES-CCM and 12 for
\* AES-GCM; encrypt() returns the ciphertext and the authentication tag over
\* the associated data and the ciphertext.
EncryptingAlgos == {"Aes128Ccm", "Aes128Gcm"}
NonceSize(algo) == IF algo = "Aes128Ccm" THEN 11 ELSE 12
AeadEncrypt(plain, aad, nonce) ==
    LET cipher == [i \in 1 .. Len(plain) |-> (plain[i] + nonce[1] + i) % 256]
    IN [cipher |-> cipher,
        signature |-> 1 + SigFinalize(SigUpdate(SigUpdate([n |-> 0, acc |-> 11], aad), cipher))]

\* OsRng.fill_bytes(&mut nonce[..n]): any n bytes; the model draws them from
\* the byte values 0 .. MaxRandomByte, varying the first and the last byte.
OsRngFill(n) ==
    { [i \in 1 .. n |-> IF i = 1 THEN a ELSE IF i = n THEN b ELSE 0] :
        a \in 0 .. MaxRandomByte, b \in 0 .. MaxRandomByte }

\* MessageEncryptor::gen_nonce (encryptor_decryptor.rs:53-58): the random
\* bytes, zero-padded to 16.
GenNonce(algo) == { IntoArray(r, NONCE_SIZE) : r \in OsRngFill(NonceSize(algo)) }

\* The session id of the session whose messages are encrypted (non-zero,
\* encryptor_decryptor.rs:28).
EncSessionId == 85
PlainMessages == {<<1>>, <<2, 3, 4>>}


EncryptInit ==
    /\ encAlgo \in EncryptingAlgos
    /\ encSent = <<>>

\* MessageEncryptor::encrypt_message (encryptor_decryptor.rs:23-51).
EncryptMessage ==
    /\ Len(encSent) < MaxEncrypted
    /\ \E message \in PlainMessages, nonce \in GenNonce(encAlgo) :
        LET header == [signature |-> 0, nonce |-> nonce,
                       original_message_size |-> Len(message),
                       session_id |-> EncSessionId]
            aad == AeadBytes(header)
            result == AeadEncrypt(message, aad, header.nonce)
            final == [header EXCEPT !.signature = result.signature]
        IN encSent' = Append(encSent, [header |-> final, aad |-> aad,
                                       cipher |-> result.cipher])
    /\ UNCHANGED <<notEncVars, encAlgo>>

EncryptNext == EncryptMessage

(***************************************************************************)
(* The codec: ChainedItemList (crates/smb-fscc/src/chained_list.rs),       *)
(* FileFullEaInformationInner (crates/smb-fscc/src/common_info.rs),        *)
(* RespGetDfsReferral (crates/smb-msg/src/dfsc.rs), Header.                *)
(***************************************************************************)
\* Bound of the codec model: the longest chained list.
MaxItems == 2

\* chained_list.rs:11  const CHAINED_ITEM_DEFAULT_OFFSET_PAD: u32 = 4;
CHAINED_ITEM_DEFAULT_OFFSET_PAD == 4
\* chained_list.rs:18  size_of::<NextEntryOffsetType>()
CHAINED_ITEM_PREFIX_SIZE == 4

\* BinWrite for FileFullEaInformationInner (common_info.rs:43-57): the two
\* lengths are calculated, the name is a NullString (its bytes, then a zero).
WriteEa(item) ==
    IF Len(item.ea_name) > 255 THEN [ok |-> FALSE, bytes |-> <<>>]
    ELSE [ok |-> TRUE,
          bytes |-> LE(item.flags, 1) \o LE(Len(item.ea_name), 1)
                    \o LE(Len(item.ea_value) % 65536, 2)
                    \o item.ea_name \o <<0>> \o item.ea_value]

\* Position (0-based) of the first zero byte of s at or after pos, or -1.
RECURSIVE FindNul(_, _)
FindNul(s, pos) ==
    IF pos >= Len(s) THEN -1
    ELSE IF s[pos + 1] = 0 THEN pos ELSE FindNul(s, pos + 1)

\* BinRead for FileFullEaInformationInner at position pos of stream s: the
\* value and the position after it.
ReadEa(s, pos) ==
    IF pos + 4 > Len(s) THEN [ok |-> FALSE]
    ELSE LET flags == s[pos + 1]
             ea_name_length == s[pos + 2]
             ea_value_length == FromLE(Slice(s, pos + 2, pos + 4))
             nul == FindNul(s, pos + 4)
         IN IF nul = -1 THEN [ok |-> FALSE]
            ELSE IF nul - (pos + 4) # ea_name_length THEN [ok |-> FALSE]
            ELSE IF nul + 1 + ea_value_length > Len(s) THEN [ok |-> FALSE]
            ELSE [ok |-> TRUE,
                  value |-> [flags |-> flags,
                             ea_name |-> Slice(s, pos + 4, nul),
                             ea_value |-> Slice(s, nul + 1, nul + 1 + ea_value_length)],
                  pos |-> nul + 1 + ea_value_length]

\* Writing `bytes` at position pos of a growable stream (Cursor<Vec<u8>>):
\* a gap left by a seek past the end is filled with zeros.
WriteAt(s, pos, bytes) ==
    [i \in 1 .. (IF pos + Len(bytes) > Len(s) THEN pos + Len(bytes) ELSE Len(s)) |->
        IF i > pos /\ i <= pos + Len(bytes) THEN bytes[i - pos]
        ELSE IF i <= Len(s) THEN s[i] ELSE 0]

\* FileNamesInformation (directory_info.rs:284-293): file_index, the byte
\* length of the name, the name as UTF-16 code units (SizedWideString).
WriteWide(units) ==
    [i \in 1 .. 2 * Len(units) |->
        IF i % 2 = 1 THEN units[(i + 1) \div 2] % 256 ELSE units[i \div 2] \div 256]
ReadWide(bytes) ==
    [i \in 1 .. Len(bytes) \div 2 |-> bytes[2 * i - 1] + 256 * bytes[2 * i]]

WriteNames(item) ==
    [ok |-> TRUE,
     bytes |-> LE(item.file_index, 4) \o LE(2 * Len(item.file_name), 4)
               \o WriteWide(item.file_name)]

ReadNames(s, pos) ==
    IF pos + 8 > Len(s) THEN [ok |-> FALSE]
    ELSE LET file_name_length == FromLE(Slice(s, pos + 4, pos + 8))
         IN IF pos + 8 + file_name_length > Len(s) \/ file_name_length % 2 # 0
            THEN [ok |-> FALSE]
            ELSE [ok |-> TRUE,
                  value |-> [file_index |-> FromLE(Slice(s, pos, pos + 4)),
                             file_name |-> ReadWide(Slice(s, pos + 8,
                                                          pos + 8 + file_name_length))],
                  pos |-> pos + 8 + file_name_length]

\* T::write_options and T::read_options for the item type T of a list.
ItemTypes == {"FileFullEaInformationInner", "FileNamesInformation"}
WriteItem(T, item) ==
    IF T = "FileFullEaInformationInner" THEN WriteEa(item) ELSE WriteNames(item)
ReadItem(T, s, pos) ==
    IF T = "FileFullEaInformationInner" THEN ReadEa(s, pos) ELSE ReadNames(s, pos)

\* directory_info.rs:37  pub const CHAINED_ALIGNMENT: u32 = 8;
CHAINED_ALIGNMENT == 8
\* OFFSET_PAD of the list of each item type: FileFullEaInformation
\* (common_info.rs:71), QueryDirectoryResponse::read_output (query_dir.rs:121).
OffsetPad(T) ==
    IF T = "FileFullEaInformationInner" THEN CHAINED_ITEM_DEFAULT_OFFSET_PAD
    ELSE CHAINED_ALIGNMENT

\* chained_list.rs:89-90 with a defect: no padding.
PaddingNeededNone(position_after_item, pad) == 0
\* chained_list.rs:89-90.
PaddingNeeded(position_after_item, pad) == (pad - (position_after_item % pad)) % pad

\* BinWrite for ChainedItemList (chained_list.rs:67-113): the loop from item
\* i on, the stream s being at position pos.
RECURSIVE WriteChainedFrom(_, _, _, _, _, _)
WriteChainedFrom(T, values, i, s, pos, pad) ==
    IF i > Len(values) THEN [ok |-> TRUE, stream |-> s, pos |-> pos]
    ELSE LET position_before == pos
             item == WriteItem(T, values[i])
             s1 == WriteAt(WriteAt(s, pos, LE(0, CHAINED_ITEM_PREFIX_SIZE)),
                         pos + CHAINED_ITEM_PREFIX_SIZE, item.bytes)
             position_after_item == pos + CHAINED_ITEM_PREFIX_SIZE + Len(item.bytes)
         IN IF ~item.ok THEN [ok |-> FALSE, stream |-> s, pos |-> pos]
            ELSE IF i = Len(values)
            THEN [ok |-> TRUE, stream |-> s1, pos |-> position_after_item]
            ELSE LET padding_needed == PaddingNeeded(position_after_item, pad)
                     position_after == position_after_item + padding_needed
                     next_entry_offset == position_after - position_before
                     s2 == WriteAt(s1, position_before, LE(next_entry_offset, CHAINED_ITEM_PREFIX_SIZE))
                     \* the seek forward leaves the padding unwritten: the
                     \* stream grows only when the next item is written
                 IN WriteChainedFrom(T, values, i + 1, s2, position_after, pad)

WriteChained(T, values, s, pos, pad) == WriteChainedFrom(T, values, 1, s, pos, pad)

\* chained_list.rs:145 with a defect: no alignment check.
IsAlignedAlways(position_before, pad) == TRUE
\* chained_list.rs:145.
IsAligned(position_before, pad) == position_before % pad = 0

\* chained_list.rs:142-165 with a defect: a read past the end of the stream
\* does not end the loop.
ReadChainedStepRetryOnEof(T, s, pos, pad, values) ==
    LET position_before == pos IN
    IF ~IsAligned(position_before, pad)
    THEN [done |-> TRUE, ok |-> FALSE, error |-> "AssertFail", pos |-> pos, values |-> values]
    ELSE IF pos + CHAINED_ITEM_PREFIX_SIZE > Len(s)
    THEN [done |-> FALSE, ok |-> FALSE, error |-> "none", pos |-> pos, values |-> values]
    ELSE LET next_item_offset == FromLE(Slice(s, pos, pos + CHAINED_ITEM_PREFIX_SIZE))
             item == ReadItem(T, s, pos + CHAINED_ITEM_PREFIX_SIZE)
         IN IF ~item.ok
            THEN [done |-> FALSE, ok |-> FALSE, error |-> "none", pos |-> pos, values |-> values]
            ELSE IF next_item_offset = 0
            THEN [done |-> TRUE, ok |-> TRUE, error |-> "none", pos |-> item.pos,
                  values |-> Append(values, item.value)]
            ELSE [done |-> FALSE, ok |-> TRUE, error |-> "none",
                  pos |-> position_before + next_item_offset,
                  values |-> Append(values, item.value)]

\* One iteration of the loop of read_options (chained_list.rs:142-165), the
\* reader being at position pos of stream s: whether the function returns,
\* with what, and the reader's position and the values afterwards.
ReadChainedStep(T, s, pos, pad, values) ==
    LET position_before == pos IN
    IF ~IsAligned(position_before, pad)
    THEN [done |-> TRUE, ok |-> FALSE, error |-> "AssertFail", pos |-> pos, values |-> values]
    ELSE IF pos + CHAINED_ITEM_PREFIX_SIZE > Len(s)
    THEN [done |-> TRUE, ok |-> FALSE, error |-> "Io", pos |-> pos, values |-> values]
    ELSE LET next_item_offset == FromLE(Slice(s, pos, pos + CHAINED_ITEM_PREFIX_SIZE))
             item == ReadItem(T, s, pos + CHAINED_ITEM_PREFIX_SIZE)
         IN IF ~item.ok
            THEN [done |-> TRUE, ok |-> FALSE, error |-> "Item", pos |-> pos, values |-> values]
            ELSE IF next_item_offset = 0
            THEN [done |-> TRUE, ok |-> TRUE, error |-> "none", pos |-> item.pos,
                  values |-> Append(values, item.value)]
            ELSE [done |-> FALSE, ok |-> TRUE, error |-> "none",
                  pos |-> position_before + next_item_offset,
                  values |-> Append(values, item.value)]

\* BinRead for ChainedItemList (chained_list.rs:141-165): the loop.
RECURSIVE ReadChainedLoop(_, _, _, _, _)
ReadChainedLoop(T, s, pos, pad, values) ==
    LET r == ReadChainedStep(T, s, pos, pad, values)
    IN IF ~r.done THEN ReadChainedLoop(T, s, r.pos, pad, r.values)
       ELSE IF r.ok THEN [ok |-> TRUE, value |-> r.values]
       ELSE [ok |-> FALSE, error |-> r.error]

\* chained_list.rs:128-139: a reader already at the end of the stream.
AtStreamEnd(s, pos) == pos = Len(s)

\* BinRead for ChainedItemList (chained_list.rs:123-167).
ReadChained(T, s, pos, pad) ==
    IF AtStreamEnd(s, pos) THEN [ok |-> TRUE, value |-> <<>>]
    ELSE ReadChainedLoop(T, s, pos, pad, <<>>)

\* BinWrite for RespGetDfsReferral (dfsc.rs:94-107): unimplemented!().
WriteRespGetDfsReferral(v) == [ok |-> FALSE, panic |-> TRUE, bytes |-> <<>>]

\* encode: the bytes of a value of each kind, written to an empty stream.
Encode(kind, v) ==
    IF kind = "Header"
    THEN LET w == WriteHeader(v) IN [ok |-> w.ok, panic |-> FALSE, bytes |-> w.bytes]
    ELSE IF kind = "FileFullEaInformation"
    THEN LET w == WriteChained("FileFullEaInformationInner", v, <<>>, 0,
                                CHAINED_ITEM_DEFAULT_OFFSET_PAD)
         IN [ok |-> w.ok, panic |-> FALSE, bytes |-> w.stream]
    ELSE WriteRespGetDfsReferral(v)

\* decode: the value read from the start of a stream.
Decode(kind, bytes) ==
    IF kind = "Header" THEN ReadHeader(bytes)
    ELSE IF kind = "FileFullEaInformation"
    THEN LET r == ReadChained("FileFullEaInformationInner", bytes, 0,
                               CHAINED_ITEM_DEFAULT_OFFSET_PAD)
         IN IF r.ok THEN [ok |-> TRUE, value |-> r.value] ELSE [ok |-> FALSE]
    ELSE [ok |-> FALSE]

EaSamples ==
    [flags : {0, 128}, ea_name : {<<65>>, <<65, 66>>}, ea_value : {<<>>, <<7>>, <<7, 0, 9>>}]

DfsSamples ==
    [path_consumed : {0, 48}, referral_header_flags : {0, 2}, referral_entries : {<<>>}]


CodecInit ==
    /\ cdKind \in {"Header", "FileFullEaInformation", "RespGetDfsReferral"}
    /\ cdValue \in CASE cdKind = "Header" -> HeaderSamples
                     [] cdKind = "FileFullEaInformation" -> SeqsUpTo(EaSamples, MaxItems)
                     [] OTHER -> DfsSamples
    /\ cdBytes = <<>>
    /\ cdOut = [ok |-> FALSE]
    /\ cdStage = "value"

CodecEncode ==
    /\ cdStage = "value"
    /\ LET e == Encode(cdKind, cdValue) IN
        /\ cdBytes' = e.bytes
        /\ cdStage' = IF e.panic THEN "panicked" ELSE IF e.ok THEN "encoded" ELSE "failed"
    /\ UNCHANGED <<notCodecVars, cdKind, cdValue, cdOut>>

CodecDecode ==
    /\ cdStage = "encoded"
    /\ cdOut' = Decode(cdKind, cdBytes)
    /\ cdStage' = "decoded"
    /\ UNCHANGED <<notCodecVars, cdKind, cdValue, cdBytes>>

CodecNext == CodecEncode \/ CodecDecode

(***************************************************************************)
(* A chained list written to a stream and read back, one iteration of the  *)
(* reader's loop at a time (crates/smb-fscc/src/chained_list.rs).          *)
(***************************************************************************)
\* Stream positions at which the writer is handed the stream: the start, an
\* unaligned position, an aligned one.
ChainBases == {0, 2, 8}

\* Values of the two item types.
ItemSamples(T) ==
    IF T = "FileFullEaInformationInner" THEN {e \in EaSamples : e.flags = 0}
    ELSE [file_index : {1}, file_name : {<<97>>, <<97, 98>>, <<97, 98, 99>>}]

\* The positions of the first n elements of the chain that starts at pos,
\* following the next_entry_offset fields.
RECURSIVE ChainStarts(_, _, _)
ChainStarts(s, pos, n) ==
    IF n = 0 THEN <<>>
    ELSE <<pos>> \o ChainStarts(s, pos + FromLE(Slice(s, pos, pos + CHAINED_ITEM_PREFIX_SIZE)),
                                n - 1)

\* What a faulty or hostile peer may put into a next_entry_offset field, and
\* how many bytes it may cut from the end of the stream.
CorruptOffsets == {0, 2, 6, 8, 16, 64}
Truncations == {1, 5}

ChainInit ==
    /\ chT \in ItemTypes
    /\ chBase \in ChainBases
    /\ chSrc \in SeqsUpTo(ItemSamples(chT), MaxItems)
    /\ chStream = Zeros(chBase)
    /\ chPos = chBase
    /\ chValues = <<>>
    /\ chStarts = {}
    /\ chStage = "value"
    /\ chResult = "none"
    /\ chCorrupted = FALSE

\* ChainedItemList::write_options on a stream at position chBase.
ChainWrite ==
    /\ chStage = "value"
    /\ LET w == WriteChained(chT, chSrc, chStream, chBase, OffsetPad(chT)) IN
        /\ chStream' = w.stream
        /\ chStage' = IF w.ok THEN "written" ELSE "err"
    /\ UNCHANGED <<notChainVars, chT, chBase, chSrc, chPos, chValues, chStarts,
                   chResult, chCorrupted>>

\* The bytes are changed before they are read: one next_entry_offset field
\* is overwritten, or the stream is cut short.
ChainCorrupt ==
    /\ chStage = "written"
    /\ ~chCorrupted
    /\ \/ \E k \in 1 .. Len(chSrc), v \in CorruptOffsets :
            LET at == ChainStarts(chStream, chBase, Len(chSrc))[k] IN
            /\ FromLE(Slice(chStream, at, at + CHAINED_ITEM_PREFIX_SIZE)) # v
            /\ chStream' = WriteAt(chStream, at, LE(v, CHAINED_ITEM_PREFIX_SIZE))
       \/ \E t \in Truncations :
            /\ Len(chStream) - t >= chBase
            /\ chStream' = SubSeq(chStream, 1, Len(chStream) - t)
    /\ chCorrupted' = TRUE
    /\ UNCHANGED <<notChainVars, chT, chBase, chSrc, chPos, chValues, chStarts,
                   chStage, chResult>>

\* read_options up to the loop (chained_list.rs:128-139).
ChainReadBegin ==
    /\ chStage = "written"
    /\ chStage' = IF AtStreamEnd(chStream, chPos) THEN "ok" ELSE "reading"
    /\ UNCHANGED <<notChainVars, chT, chBase, chSrc, chStream, chPos, chValues,
                   chStarts, chResult, chCorrupted>>

\* One iteration of the loop of read_options (chained_list.rs:142-165).
ChainReadItem ==
    /\ chStage = "reading"
    /\ LET r == ReadChainedStep(chT, chStream, chPos, OffsetPad(chT), chValues) IN
        /\ chStarts' = chStarts \cup {chPos}
        /\ chPos' = r.pos
        /\ chValues' = r.values
        /\ chResult' = r.error
        /\ chStage' = IF ~r.done THEN "reading" ELSE IF r.ok THEN "ok" ELSE "err"
    /\ UNCHANGED <<notChainVars, chT, chBase, chSrc, chStream, chCorrupted>>

ChainNext == ChainWrite \/ ChainCorrupt \/ ChainReadBegin \/ ChainReadItem

SessionNext ==
    \/ \E p \in Callers : LogoffSwap(p)
    \/ \E p \in Procs : LogoffCheckReady(p)
    \/ \E p \in Procs : LogoffSendRecv(p)
    \/ \E p \in Procs : LogoffInvalidate(p)
    \/ DropSync
    \/ DropAsync
    \/ TaskLogoffSwap
    \/ TempHandlerDrop
    \/ \E p \in Callers : BindCheck(p)
    \/ \E p \in Callers : BindAlloc(p)
    \/ \E p \in Callers : BindSetup(p)
    \/ \E p \in Callers : BindInsertAlt(p)
    \/ \E p \in Callers : BindInsertHandler(p)
    \/ \E p \in Callers : SendOrRecv(p)

vars == <<sessVars, signVars, encVars, codecVars, chainVars, aclVars, sdVars, pmVars, hdVars, ncVars, ccVars, dqVars, cpVars, cmVars, dfVars, ssVars, fsVars, pgVars>>

\* Each specification runs one component; the others stay as constructed.
SessionParked == SessionInit /\ build = "sync" /\ ~allowUnsigned
SignParked ==
    /\ sgAlgo = "HmacSha256"
    /\ sgHeader = [credit_charge |-> 1, status |-> 0, command |-> 2,
                   credit_request |-> 1, flags |-> 0, next_command |-> 0,
                   message_id |-> 8, tree_id |-> Some(5), async_id |-> None,
                   session_id |-> 33, signature |-> 0]
    /\ sgData = <<WriteHeader(sgHeader).bytes>>
    /\ sgStage = "built"
    /\ sgResult = "none"
    /\ sgGhost = [signed |-> FALSE, tampered |-> FALSE, prior |-> 0]
EncryptParked == EncryptInit /\ encAlgo = "Aes128Gcm"
CodecParked ==
    /\ cdKind = "Header"
    /\ cdValue = <<>>
    /\ cdBytes = <<>>
    /\ cdOut = [ok |-> FALSE]
    /\ cdStage = "parked"

ChainParked ==
    /\ chT = "FileFullEaInformationInner"
    /\ chBase = 0
    /\ chSrc = <<>>
    /\ chStream = <<>>
    /\ chPos = 0
    /\ chValues = <<>>
    /\ chStarts = {}
    /\ chStage = "parked"
    /\ chResult = "none"
    /\ chCorrupted = FALSE

AclParked ==
    /\ aclAce = <<>>
    /\ aclPrev = <<>>
    /\ aclLastOp = "parked"

SdParked ==
    /\ sdBytes = <<>>
    /\ sdStage = "parked"
    /\ sdResult = [ok |-> FALSE]

PlainParked ==
    /\ pmSide = "Request"
    /\ pmMsg = [built |-> FALSE]
    /\ pmBytes = <<>>
    /\ pmStage = "parked"
    /\ pmOut = [ok |-> FALSE]

HeaderParked ==
    /\ hdHeader = [flags |-> 0]
    /\ hdBytes = <<>>
    /\ hdStage = "parked"
    /\ hdOut = [ok |-> FALSE]

NegCtxParked ==
    /\ ncBytes = <<>>
    /\ ncStage = "parked"
    /\ ncOut = [ok |-> FALSE]
    /\ ncEncoded = <<>>

CreateCtxParked ==
    /\ ccBytes = <<>>
    /\ ccDebug = FALSE
    /\ ccStage = "parked"
    /\ ccOut = [ok |-> FALSE, panic |-> FALSE]

DirParked ==
    /\ dqEntries = <<>>
    /\ dqPattern = "*"
    /\ dqBufLen = 0
    /\ dqCursor = 0
    /\ dqStage = "parked"
    /\ dqResponse = [status |-> "none", output_buffer |-> <<>>]
    /\ dqFound = <<>>
    /\ dqRequests = 0

CopyParked ==
    /\ cpFrom = [kind |-> "Local"]
    /\ cpTo = [kind |-> "Local"]
    /\ cpFeature = "async"
    /\ cpMultichannel = FALSE
    /\ cpStage = "parked"
    /\ cpMethod = "none"
    /\ cpJobs = {}
    /\ cpOps = {}

CompressedParked ==
    /\ cmMsg = [kind |-> "none"]
    /\ cmStage = "parked"
    /\ cmBytes = <<>>
    /\ cmTotal = 0

DfsParked ==
    /\ dfEntry = [layout |-> "none"]
    /\ dfBytes = <<>>
    /\ dfStage = "parked"
    /\ dfOut = [ok |-> FALSE]

SetSecurityParked ==
    /\ ssDacl = [some |-> FALSE, v |-> <<>>]
    /\ ssRemove = <<>>
    /\ ssAdd = <<>>
    /\ ssForce = FALSE
    /\ ssStage = "parked"
    /\ ssNew = <<>>

FsctlParked ==
    /\ fsCtlCode = 0
    /\ fsOutBuffer = <<>>
    /\ fsStage = "parked"
    /\ fsOut = [ok |-> FALSE, panic |-> FALSE, error |-> "none"]

ProgressParked ==
    /\ pgTotal = 0
    /\ pgCopied = 0
    /\ pgCopy = "parked"
    /\ pgDoCopy = "parked"
    /\ pgReporter = "parked"

SessionSpecInit == SessionInit /\ SignParked /\ EncryptParked /\ CodecParked /\ ChainParked /\ AclParked /\ SdParked /\ PlainParked /\ HeaderParked /\ NegCtxParked /\ CreateCtxParked /\ DirParked /\ CopyParked /\ CompressedParked /\ DfsParked /\ SetSecurityParked /\ FsctlParked /\ ProgressParked
SpecSession == SessionSpecInit /\ [][SessionNext]_vars

SignSpecInit == SessionParked /\ SignInit /\ EncryptParked /\ CodecParked /\ ChainParked /\ AclParked /\ SdParked /\ PlainParked /\ HeaderParked /\ NegCtxParked /\ CreateCtxParked /\ DirParked /\ CopyParked /\ CompressedParked /\ DfsParked /\ SetSecurityParked /\ FsctlParked /\ ProgressParked
SpecSign == SignSpecInit /\ [][SignNext]_vars

EncryptSpecInit == SessionParked /\ SignParked /\ EncryptInit /\ CodecParked /\ ChainParked /\ AclParked /\ SdParked /\ PlainParked /\ HeaderParked /\ NegCtxParked /\ CreateCtxParked /\ DirParked /\ CopyParked /\ CompressedParked /\ DfsParked /\ SetSecurityParked /\ FsctlParked /\ ProgressParked
SpecEncrypt == EncryptSpecInit /\ [][EncryptNext]_vars

CodecSpecInit == SessionParked /\ SignParked /\ EncryptParked /\ CodecInit /\ ChainParked /\ AclParked /\ SdParked /\ PlainParked /\ HeaderParked /\ NegCtxParked /\ CreateCtxParked /\ DirParked /\ CopyParked /\ CompressedParked /\ DfsParked /\ SetSecurityParked /\ FsctlParked /\ ProgressParked
SpecCodec == CodecSpecInit /\ [][CodecNext]_vars

ChainSpecInit == SessionParked /\ SignParked /\ EncryptParked /\ CodecParked /\ ChainInit /\ AclParked /\ SdParked /\ PlainParked /\ HeaderParked /\ NegCtxParked /\ CreateCtxParked /\ DirParked /\ CopyParked /\ CompressedParked /\ DfsParked /\ SetSecurityParked /\ FsctlParked /\ ProgressParked
SpecChain == ChainSpecInit /\ [][ChainNext]_vars
\* read_options is sequential code: once called it takes its next step.
SpecChainFair == SpecChain /\ WF_vars(ChainReadBegin \/ ChainReadItem)

(***************************************************************************)
(* The ACL and the order of its ACEs (smb-dtyp/src/security/acl.rs).       *)
(***************************************************************************)
MaxAces == 3

\* An ACE as far as the ordering reads it: the inherited flag of its
\* header, the variant of its value, and a trustee that tells apart ACEs
\* the comparator holds equal.
AceKinds == {"AccessAllowed", "AccessDenied", "SystemAudit"}
AceSamples == [inherited : BOOLEAN, kind : AceKinds, sid : {1, 2}]

\* AceValue::is_access_allowed: true for the AccessAllowed variant only.
IsAccessAllowed(ace) == ace.kind = "AccessAllowed"

\* Ordering of two booleans, false before true, as -1 / 0 / 1.
CmpBool(x, y) == IF x = y THEN 0 ELSE IF y THEN -1 ELSE 1

SortAcesByInheritedOnly(a, b) == CmpBool(a.inherited, b.inherited)

SortAcesBy(a, b) ==
    IF a.inherited # b.inherited
    THEN CmpBool(a.inherited, b.inherited)
    ELSE IF a.inherited
         THEN 0
         ELSE CmpBool(IsAccessAllowed(a), IsAccessAllowed(b))

\* slice::sort_by is a stable sort: an element goes behind every element
\* that does not compare greater than it.
InsertBeforeEqual(sorted, x) ==
    LET before == SelectSeq(sorted, LAMBDA y : SortAcesBy(y, x) < 0)
        after == SelectSeq(sorted, LAMBDA y : SortAcesBy(y, x) >= 0)
    IN  before \o <<x>> \o after

InsertStable(sorted, x) ==
    LET before == SelectSeq(sorted, LAMBDA y : SortAcesBy(y, x) <= 0)
        after == SelectSeq(sorted, LAMBDA y : SortAcesBy(y, x) > 0)
    IN  before \o <<x>> \o after

RECURSIVE SortBy(_, _)
SortBy(aces, n) ==
    IF n = 0 THEN <<>> ELSE InsertStable(SortBy(aces, n - 1), aces[n])

OrderAcesLeaveAsIs(ace) == ace

OrderAces(ace) == SortBy(ace, Len(ace))

IsAceSorted(ace) ==
    \A i \in 1..(Len(ace) - 1) : SortAcesBy(ace[i], ace[i + 1]) <= 0

AclInit ==
    /\ aclAce \in SeqsUpTo(AceSamples, MaxAces)
    /\ aclPrev = <<>>
    /\ aclLastOp = "none"

AclOrderAces ==
    /\ aclLastOp # "parked"
    /\ aclPrev' = aclAce
    /\ aclAce' = OrderAces(aclAce)
    /\ aclLastOp' = "order_aces"
    /\ UNCHANGED notAclVars

AclInsertAce ==
    /\ aclLastOp # "parked"
    /\ Len(aclAce) < MaxAces
    /\ \E ace \in AceSamples :
        /\ aclPrev' = Append(aclAce, ace)
        /\ aclAce' = OrderAces(Append(aclAce, ace))
    /\ aclLastOp' = "insert_ace"
    /\ UNCHANGED notAclVars

AclNext == AclOrderAces \/ AclInsertAce

AclSpecInit == SessionParked /\ SignParked /\ EncryptParked /\ CodecParked /\ ChainParked /\ AclInit /\ SdParked /\ PlainParked /\ HeaderParked /\ NegCtxParked /\ CreateCtxParked /\ DirParked /\ CopyParked /\ CompressedParked /\ DfsParked /\ SetSecurityParked /\ FsctlParked /\ ProgressParked
SpecAcl == AclSpecInit /\ [][AclNext]_vars

(***************************************************************************)
(* SecurityDescriptor (smb-dtyp/src/security/security_descriptor.rs).      *)
(***************************************************************************)
\* SecurityDescriptorControl, a 16-bit field, first member in bit 0.
ControlBit(control, n) == (control \div (2 ^ n)) % 2 = 1
DaclPresent(control) == ControlBit(control, 2)
SaclPresent(control) == ControlBit(control, 4)
SelfRelative(control) == ControlBit(control, 15)

\* Whether n bytes can be read at pos.
CanRead(s, pos, n) == pos + n <= Len(s)

\* PosMarker<u32> as read: the value of the field.
ReadPosMarker(s, pos) == FromLE(Slice(s, pos, pos + 4))

\* SID: revision 1, the number of sub-authorities, six bytes of authority,
\* the sub-authorities.
ReadSid(s, pos) ==
    IF ~CanRead(s, pos, 8) \/ s[pos + 1] # 1 \/ ~CanRead(s, pos, 8 + 4 * s[pos + 2])
    THEN [ok |-> FALSE]
    ELSE [ok |-> TRUE, pos |-> pos + 8 + 4 * s[pos + 2],
          value |-> Slice(s, pos, pos + 8 + 4 * s[pos + 2])]

\* ACE: type, flags, the size of the whole ACE, the body.
ReadAce(s, pos) ==
    IF ~CanRead(s, pos, 4) THEN [ok |-> FALSE]
    ELSE LET size == FromLE(Slice(s, pos + 2, pos + 4))
         IN IF size < 4 \/ ~CanRead(s, pos, size) THEN [ok |-> FALSE]
            ELSE [ok |-> TRUE, pos |-> pos + size, value |-> Slice(s, pos, pos + size)]

RECURSIVE ReadAces(_, _, _, _)
ReadAces(s, pos, count, aces) ==
    IF count = 0 THEN [ok |-> TRUE, pos |-> pos, value |-> aces]
    ELSE LET r == ReadAce(s, pos)
         IN IF ~r.ok THEN [ok |-> FALSE]
            ELSE ReadAces(s, r.pos, count - 1, Append(aces, r.value))

\* BinRead for ACL (acl.rs:9-31): acl_revision, sbz1 = 0, the size, the
\* number of ACEs, sbz2 = 0, the ACEs.
AclRevisions == {2, 4}
ACL_HEADER_SIZE == 8

ReadAcl(s, pos) ==
    IF ~CanRead(s, pos, ACL_HEADER_SIZE) THEN [ok |-> FALSE]
    ELSE IF s[pos + 1] \notin AclRevisions \/ s[pos + 2] # 0
            \/ FromLE(Slice(s, pos + 6, pos + 8)) # 0
    THEN [ok |-> FALSE]
    ELSE LET r == ReadAces(s, pos + ACL_HEADER_SIZE,
                           FromLE(Slice(s, pos + 4, pos + 6)), <<>>)
         IN IF ~r.ok THEN [ok |-> FALSE]
            ELSE [ok |-> TRUE, pos |-> r.pos,
                  value |-> [acl_revision |-> s[pos + 1], ace |-> r.value]]

\* br(if(cond)) on an Option field: the field is read when cond holds and
\* is None otherwise.
ReadIf(cond, r) ==
    IF cond THEN IF r.ok THEN [ok |-> TRUE, pos |-> r.pos, value |-> Some(r.value)]
                 ELSE [ok |-> FALSE]
    ELSE [ok |-> TRUE, value |-> None]

\* security_descriptor.rs:50 and :57, the br(assert)s of sacl and dacl.
AssertSaclSkipped(offset_sacl, control) == TRUE

AssertSacl(offset_sacl, control) == (offset_sacl # 0) = SaclPresent(control)

AssertDacl(offset_dacl, control) == (offset_dacl # 0) = DaclPresent(control)

SD_HEADER_SIZE == 20

\* BinRead for SecurityDescriptor: the fields in order from the start of
\* the stream; the reader does not seek to the offsets.
ReadSecurityDescriptor(s) ==
    IF ~CanRead(s, 0, SD_HEADER_SIZE) THEN [ok |-> FALSE]
    ELSE
    LET revision == s[1]
        sbz1 == s[2]
        control == FromLE(Slice(s, 2, 4))
        offset_owner == ReadPosMarker(s, 4)
        offset_group == ReadPosMarker(s, 8)
        offset_sacl == ReadPosMarker(s, 12)
        offset_dacl == ReadPosMarker(s, 16)
        owner == ReadIf(offset_owner # 0, ReadSid(s, SD_HEADER_SIZE))
        p1 == IF owner.ok /\ owner.value.some THEN owner.pos ELSE SD_HEADER_SIZE
        group == ReadIf(offset_group # 0, ReadSid(s, p1))
        p2 == IF group.ok /\ group.value.some THEN group.pos ELSE p1
        sacl == ReadIf(offset_sacl # 0, ReadAcl(s, p2))
        p3 == IF sacl.ok /\ sacl.value.some THEN sacl.pos ELSE p2
        dacl == ReadIf(offset_dacl # 0, ReadAcl(s, p3))
    IN  IF revision # 1 \/ ~SelfRelative(control) THEN [ok |-> FALSE]
        ELSE IF ~owner.ok THEN [ok |-> FALSE]
        ELSE IF ~group.ok THEN [ok |-> FALSE]
        ELSE IF ~sacl.ok \/ ~AssertSacl(offset_sacl, control) THEN [ok |-> FALSE]
        ELSE IF ~dacl.ok \/ ~AssertDacl(offset_dacl, control) THEN [ok |-> FALSE]
        ELSE [ok |-> TRUE,
              value |-> [sbz1 |-> sbz1, control |-> control,
                         owner_sid |-> owner.value, group_sid |-> group.value,
                         sacl |-> sacl.value, dacl |-> dacl.value]]

\* Descriptors as received: any revision, control and offsets over a body
\* of SIDs and ACLs, whole or cut short.
SidSample == <<1, 1, 0, 0, 0, 0, 0, 5, 18, 0, 0, 0>>
AclSample == <<2, 0, 8, 0, 0, 0, 0, 0>>
AclSampleOneAce == <<2, 0, 16, 0, 1, 0, 0, 0, 0, 0, 8, 0, 1, 0, 0, 0>>
SdBodies ==
    { <<>>, AclSample, AclSample \o AclSample, SidSample \o AclSample,
      SidSample \o SidSample \o AclSample \o AclSampleOneAce,
      AclSampleOneAce \o AclSample, SubSeq(AclSampleOneAce, 1, 12) }
SdControls == { sr + sp + dp : sr \in {0, 32768}, sp \in {0, 16}, dp \in {0, 4} }
SdOffsets == {0, 20, 32}

SdInit ==
    /\ \E revision \in {1, 2}, control \in SdControls,
          oo \in SdOffsets, og \in SdOffsets, os \in SdOffsets, od \in SdOffsets,
          body \in SdBodies :
            sdBytes = <<revision, 0>> \o LE(control, 2) \o LE(oo, 4) \o LE(og, 4)
                      \o LE(os, 4) \o LE(od, 4) \o body
    /\ sdStage = "received"
    /\ sdResult = [ok |-> FALSE]

SdDecode ==
    /\ sdStage = "received"
    /\ sdResult' = ReadSecurityDescriptor(sdBytes)
    /\ sdStage' = "decoded"
    /\ UNCHANGED <<sdBytes, notSdVars>>

SdNext == SdDecode

SdSpecInit == SessionParked /\ SignParked /\ EncryptParked /\ CodecParked /\ ChainParked /\ AclParked /\ SdInit /\ PlainParked /\ HeaderParked /\ NegCtxParked /\ CreateCtxParked /\ DirParked /\ CopyParked /\ CompressedParked /\ DfsParked /\ SetSecurityParked /\ FsctlParked /\ ProgressParked
SpecSd == SdSpecInit /\ [][SdNext]_vars

(***************************************************************************)
(* PlainRequest / PlainResponse (smb-msg/src/plain.rs).                    *)
(***************************************************************************)
\* header.rs:14-35, the commands of the variants kept here.
CommandLogoff == 2
CommandRead == 8
CommandEcho == 13
PlainCommands == {CommandLogoff, CommandRead, CommandCancel, CommandEcho}

\* The variants of RequestContent and ResponseContent kept here, in the
\* order of declaration (plain.rs:225-243, 87-89, 123-124).
ContentVariants(side) ==
    IF side = "Request" THEN <<"Logoff", "Echo", "Cancel">>
    ELSE <<"Logoff", "Echo", "Error">>

Contents(side) ==
    { [variant |-> ContentVariants(side)[i]] : i \in 1 .. Len(ContentVariants(side)) }

\* RequestContent::associated_cmd / ResponseContent::associated_cmd; the
\* Error variant panics (plain.rs:157).
HasAssociatedCmd(content) == content.variant # "Error"

AssociatedCmd(content) ==
    CASE content.variant = "Logoff" -> CommandLogoff
      [] content.variant = "Echo" -> CommandEcho
      [] content.variant = "Cancel" -> CommandCancel

\* br(pre_assert(matches!(command, Command::X))) of a variant; the Error
\* variant has none.
PreAssert(variant, command) ==
    variant = "Error" \/ AssociatedCmd([variant |-> variant]) = command

\* _structure_size of the content structures: LogoffRequest / LogoffResponse,
\* EchoMessage and CancelRequest 4, ErrorResponse 9.
ContentStructureSize(variant) == IF variant = "Error" THEN 9 ELSE 4

\* BinWrite of the content: the variant's structure, whatever the command.
\* Logoff, Echo and Cancel are the size and a reserved u16; ErrorResponse is
\* the size, the context count, a reserved byte and the byte count, here
\* with no error contexts.
WriteContent(content) ==
    IF content.variant = "Error"
    THEN LE(ContentStructureSize("Error"), 2) \o <<0, 0>> \o LE(0, 4)
    ELSE LE(ContentStructureSize(content.variant), 2) \o LE(0, 2)

\* BinRead of one variant at pos.
ReadVariant(variant, s, pos) ==
    IF variant = "Error"
    THEN /\ pos + 8 <= Len(s)
         /\ FromLE(Slice(s, pos, pos + 2)) = ContentStructureSize("Error")
         /\ s[pos + 3] = 0
    ELSE /\ pos + 4 <= Len(s)
         /\ FromLE(Slice(s, pos, pos + 2)) = ContentStructureSize(variant)

\* BinRead of the enum: the first variant in declaration order whose
\* pre_assert holds of the command and whose structure reads.
ReadContent(side, command, s, pos) ==
    LET vs == ContentVariants(side)
        fits == {i \in 1 .. Len(vs) :
                    PreAssert(vs[i], command) /\ ReadVariant(vs[i], s, pos)}
    IN  IF fits = {} THEN [ok |-> FALSE]
        ELSE [ok |-> TRUE,
              value |-> [variant |-> vs[CHOOSE i \in fits : \A j \in fits : i <= j]]]

\* $server_to_redir of make_plain! (plain.rs:322-323).
ExpectedServerToRedir(side) == side = "Response"

\* PlainRequest::new_with_command / PlainResponse::new_with_command.
NewWithCommand(content, command) ==
    [built |-> TRUE,
     header |-> [credit_charge |-> 0, status |-> 0, command |-> command,
                 credit_request |-> 0, flags |-> 0, next_command |-> 0,
                 message_id |-> U64_MAX, tree_id |-> Some(0), async_id |-> None,
                 session_id |-> 0, signature |-> 0],
     content |-> content]

\* BinWrite of the message: the assert on server_to_redir, the header, the
\* content with the header's command as argument.
WritePlain(side, msg) ==
    LET h == WriteHeader(msg.header)
    IN  IF ServerToRedir(msg.header.flags) # ExpectedServerToRedir(side) \/ ~h.ok
        THEN [ok |-> FALSE, bytes |-> <<>>]
        ELSE [ok |-> TRUE, bytes |-> h.bytes \o WriteContent(msg.content)]

\* BinRead of the message.
ReadPlain(side, s) ==
    LET h == ReadHeader(s)
    IN  IF ~h.ok THEN [ok |-> FALSE]
        ELSE IF ServerToRedir(h.value.flags) # ExpectedServerToRedir(side)
        THEN [ok |-> FALSE]
        ELSE LET c == ReadContent(side, h.value.command, s, STRUCT_SIZE)
             IN IF ~c.ok THEN [ok |-> FALSE]
                ELSE [ok |-> TRUE, value |-> [header |-> h.value, content |-> c.value]]

\* Messages as received: a well-formed header with any of the commands and
\* either direction, over the body of any content structure or a cut one.
ReceivedBodies == {<<4, 0, 0, 0>>, <<9, 0, 0, 0, 0, 0, 0, 0>>, <<4, 0>>}

PlainInit ==
    /\ pmSide \in {"Request", "Response"}
    /\ pmMsg = [built |-> FALSE]
    /\ pmBytes = <<>>
    /\ pmStage = "start"
    /\ pmOut = [ok |-> FALSE]

\* PlainRequest::new / PlainResponse::new: the command is the content's;
\* for the Error variant associated_cmd panics.
PlainNew ==
    /\ pmStage = "start"
    /\ \E content \in Contents(pmSide) :
        IF HasAssociatedCmd(content)
        THEN /\ pmMsg' = NewWithCommand(content, AssociatedCmd(content))
             /\ pmStage' = "built"
        ELSE /\ pmStage' = "failed"
             /\ UNCHANGED pmMsg
    /\ UNCHANGED <<pmSide, pmBytes, pmOut, notPlainVars>>

PlainNewWithCommand ==
    /\ pmStage = "start"
    /\ \E content \in Contents(pmSide), command \in PlainCommands :
        pmMsg' = NewWithCommand(content, command)
    /\ pmStage' = "built"
    /\ UNCHANGED <<pmSide, pmBytes, pmOut, notPlainVars>>

\* msg.header.flags.set_server_to_redir(true), as the sender of a response
\* does (test.rs:71).
PlainSetServerToRedir ==
    /\ pmStage = "built"
    /\ ~ServerToRedir(pmMsg.header.flags)
    /\ pmMsg' = [pmMsg EXCEPT !.header.flags = @ + 1]
    /\ UNCHANGED <<pmSide, pmBytes, pmStage, pmOut, notPlainVars>>

PlainWrite ==
    /\ pmStage = "built"
    /\ LET w == WritePlain(pmSide, pmMsg)
       IN  /\ pmBytes' = w.bytes
           /\ pmStage' = IF w.ok THEN "written" ELSE "failed"
    /\ UNCHANGED <<pmSide, pmMsg, pmOut, notPlainVars>>

PlainReceive ==
    /\ pmStage = "start"
    /\ \E command \in PlainCommands, flags \in {0, 1}, body \in ReceivedBodies :
        pmBytes' = WriteHeader([NewWithCommand([variant |-> "Echo"], command).header
                                    EXCEPT !.flags = flags]).bytes \o body
    /\ pmStage' = "received"
    /\ UNCHANGED <<pmSide, pmMsg, pmOut, notPlainVars>>

PlainRead ==
    /\ pmStage \in {"written", "received"}
    /\ pmOut' = ReadPlain(pmSide, pmBytes)
    /\ pmStage' = "read"
    /\ UNCHANGED <<pmSide, pmMsg, pmBytes, notPlainVars>>

PlainNext ==
    \/ PlainNew
    \/ PlainNewWithCommand
    \/ PlainSetServerToRedir
    \/ PlainWrite
    \/ PlainReceive
    \/ PlainRead

PlainSpecInit == SessionParked /\ SignParked /\ EncryptParked /\ CodecParked /\ ChainParked /\ AclParked /\ SdParked /\ PlainInit /\ HeaderParked /\ NegCtxParked /\ CreateCtxParked /\ DirParked /\ CopyParked /\ CompressedParked /\ DfsParked /\ SetSecurityParked /\ FsctlParked /\ ProgressParked
SpecPlain == PlainSpecInit /\ [][PlainNext]_vars

(***************************************************************************)
(* Header with its two forms (smb-msg/src/header.rs:203-239).              *)
(***************************************************************************)
\* Header values as a caller can build them: every field is public, so the
\* flag, tree_id and async_id are set independently.
HeaderValues ==
    { [credit_charge |-> 0, status |-> 0, command |-> cmd, credit_request |-> 1,
       flags |-> fl, next_command |-> 0, message_id |-> 8,
       tree_id |-> t, async_id |-> a, session_id |-> 33, signature |-> 0] :
         cmd \in {CommandRead, CommandEcho}, fl \in {0, 1, 2, 3},
         t \in {None, Some(5)}, a \in {None, Some(8)} }

AsyncIds == {8, 9}

\* Header::to_async: set the flag, clear tree_id, set async_id.
ToAsync(h, async_id) ==
    [h EXCEPT !.flags = IF AsyncCommand(@) THEN @ ELSE @ + 2,
              !.tree_id = None,
              !.async_id = Some(async_id)]

HeaderInit ==
    /\ hdHeader \in HeaderValues
    /\ hdBytes = <<>>
    /\ hdStage = "start"
    /\ hdOut = [ok |-> FALSE]

HeaderToAsync ==
    /\ hdStage = "start"
    /\ \E async_id \in AsyncIds : hdHeader' = ToAsync(hdHeader, async_id)
    /\ UNCHANGED <<hdBytes, hdStage, hdOut, notHeaderVars>>

HeaderWrite ==
    /\ hdStage = "start"
    /\ LET w == WriteHeader(hdHeader)
       IN  /\ hdBytes' = w.bytes
           /\ hdStage' = IF w.ok THEN "written" ELSE "failed"
    /\ UNCHANGED <<hdHeader, hdOut, notHeaderVars>>

\* Headers as received: the sync and the async form, whole or cut short.
HeaderReceive ==
    /\ hdStage = "start"
    /\ \E h \in HeaderValues, cut \in {0, 8} :
        /\ WriteHeader(h).ok
        /\ Len(WriteHeader(h).bytes) = STRUCT_SIZE
        /\ hdBytes' = SubSeq(WriteHeader(h).bytes, 1, STRUCT_SIZE - cut)
    /\ hdStage' = "received"
    /\ UNCHANGED <<hdHeader, hdOut, notHeaderVars>>

HeaderRead ==
    /\ hdStage \in {"written", "received"}
    /\ hdOut' = ReadHeader(hdBytes)
    /\ hdStage' = "read"
    /\ UNCHANGED <<hdHeader, hdBytes, notHeaderVars>>

HeaderNext == HeaderToAsync \/ HeaderWrite \/ HeaderReceive \/ HeaderRead

HeaderSpecInit == SessionParked /\ SignParked /\ EncryptParked /\ CodecParked /\ ChainParked /\ AclParked /\ SdParked /\ PlainParked /\ HeaderInit /\ NegCtxParked /\ CreateCtxParked /\ DirParked /\ CopyParked /\ CompressedParked /\ DfsParked /\ SetSecurityParked /\ FsctlParked /\ ProgressParked
SpecHeader == HeaderSpecInit /\ [][HeaderNext]_vars

(***************************************************************************)
(* NegotiateContext (smb-msg/src/negotiate.rs:214-321).                    *)
(***************************************************************************)
\* negotiate.rs:313-321, the variants of NegotiateContextType.
PreauthIntegrityCapabilities == 1
EncryptionCapabilities == 2
CompressionCapabilities == 3
NetnameNegotiateContextId == 5
TransportCapabilities == 6
RdmaTransformCapabilities == 7
SigningCapabilities == 8
NegotiateContextTypes ==
    {PreauthIntegrityCapabilities, EncryptionCapabilities, CompressionCapabilities,
     NetnameNegotiateContextId, TransportCapabilities, RdmaTransformCapabilities,
     SigningCapabilities}

NEG_CTX_HEADER_SIZE == 8

\* Vec<E> of count elements, E a brw(repr(u16)) enum with the values in
\* `allowed`.
RECURSIVE ReadU16Enums(_, _, _, _)
ReadU16Enums(d, pos, count, allowed) ==
    IF count = 0 THEN [ok |-> TRUE, value |-> <<>>]
    ELSE IF pos + 2 > Len(d) \/ FromLE(Slice(d, pos, pos + 2)) \notin allowed
    THEN [ok |-> FALSE]
    ELSE LET rest == ReadU16Enums(d, pos + 2, count - 1, allowed)
         IN IF ~rest.ok THEN [ok |-> FALSE]
            ELSE [ok |-> TRUE, value |-> <<FromLE(Slice(d, pos, pos + 2))>> \o rest.value]

RECURSIVE WriteU16s(_)
WriteU16s(values) ==
    IF values = <<>> THEN <<>> ELSE LE(Head(values), 2) \o WriteU16s(Tail(values))

\* A count followed, `skip` bytes later, by that many enum values.
ReadCounted(d, skip, allowed) ==
    IF 2 + skip > Len(d) THEN [ok |-> FALSE]
    ELSE ReadU16Enums(d, 2 + skip, FromLE(Slice(d, 0, 2)), allowed)

\* BinRead for NegotiateContextValue over the data_length bytes d: the
\* variant whose pre_assert holds of context_type.
ReadNegotiateContextValue(context_type, d) ==
    CASE context_type = PreauthIntegrityCapabilities ->
            IF 4 > Len(d) THEN [ok |-> FALSE]
            ELSE LET hashes == ReadU16Enums(d, 4, FromLE(Slice(d, 0, 2)), {1})
                     salt_length == FromLE(Slice(d, 2, 4))
                     salt_at == 4 + 2 * FromLE(Slice(d, 0, 2))
                 IN IF ~hashes.ok \/ salt_at + salt_length > Len(d) THEN [ok |-> FALSE]
                    ELSE [ok |-> TRUE,
                          value |-> [hash_algorithms |-> hashes.value,
                                     salt |-> Slice(d, salt_at, salt_at + salt_length)]]
      [] context_type = EncryptionCapabilities ->
            LET r == ReadCounted(d, 0, 1 .. 4)
            IN IF ~r.ok THEN [ok |-> FALSE] ELSE [ok |-> TRUE, value |-> [ciphers |-> r.value]]
      [] context_type = CompressionCapabilities ->
            LET r == ReadCounted(d, 6, 0 .. 5)
            IN IF ~r.ok THEN [ok |-> FALSE]
               ELSE [ok |-> TRUE,
                     value |-> [flags |-> Slice(d, 4, 8), compression_algorithms |-> r.value]]
      [] context_type = NetnameNegotiateContextId ->
            IF Len(d) % 2 # 0 THEN [ok |-> FALSE]
            ELSE [ok |-> TRUE, value |-> [netname |-> ReadWide(d)]]
      [] context_type = TransportCapabilities ->
            IF 4 > Len(d) THEN [ok |-> FALSE]
            ELSE [ok |-> TRUE, value |-> [flags |-> Slice(d, 0, 4)]]
      [] context_type = RdmaTransformCapabilities ->
            LET r == ReadCounted(d, 6, 0 .. 2)
            IN IF ~r.ok THEN [ok |-> FALSE] ELSE [ok |-> TRUE, value |-> [transforms |-> r.value]]
      [] context_type = SigningCapabilities ->
            LET r == ReadCounted(d, 0, 0 .. 2)
            IN IF ~r.ok THEN [ok |-> FALSE]
               ELSE [ok |-> TRUE, value |-> [signing_algorithms |-> r.value]]

\* BinWrite for NegotiateContextValue: the structure of the variant held.
WriteNegotiateContextValue(context_type, data) ==
    CASE context_type = PreauthIntegrityCapabilities ->
            LE(Len(data.hash_algorithms), 2) \o LE(Len(data.salt), 2)
            \o WriteU16s(data.hash_algorithms) \o data.salt
      [] context_type = EncryptionCapabilities ->
            LE(Len(data.ciphers), 2) \o WriteU16s(data.ciphers)
      [] context_type = CompressionCapabilities ->
            LE(Len(data.compression_algorithms), 2) \o LE(0, 2) \o data.flags
            \o WriteU16s(data.compression_algorithms)
      [] context_type = NetnameNegotiateContextId -> WriteWide(data.netname)
      [] context_type = TransportCapabilities -> data.flags
      [] context_type = RdmaTransformCapabilities ->
            LE(Len(data.transforms), 2) \o LE(0, 2) \o LE(0, 4) \o WriteU16s(data.transforms)
      [] context_type = SigningCapabilities ->
            LE(Len(data.signing_algorithms), 2) \o WriteU16s(data.signing_algorithms)

\* BinRead for NegotiateContext at the start of an aligned stream: the
\* type, which must be a variant of NegotiateContextType, data_length, the
\* reserved field, and the value read from the next data_length bytes
\* (take_seek).
ReadNegotiateContext(s) ==
    IF NEG_CTX_HEADER_SIZE > Len(s) THEN [ok |-> FALSE]
    ELSE LET context_type == FromLE(Slice(s, 0, 2))
             data_length == FromLE(Slice(s, 2, 4))
             last == IF NEG_CTX_HEADER_SIZE + data_length > Len(s) THEN Len(s)
                     ELSE NEG_CTX_HEADER_SIZE + data_length
         IN IF context_type \notin NegotiateContextTypes THEN [ok |-> FALSE]
            ELSE LET v == ReadNegotiateContextValue(context_type,
                                                    Slice(s, NEG_CTX_HEADER_SIZE, last))
                 IN IF ~v.ok THEN [ok |-> FALSE]
                    ELSE [ok |-> TRUE,
                          value |-> [context_type |-> context_type, data |-> v.value]]

\* BinWrite for NegotiateContext: the type, the size of the data written
\* (PosMarker::write_size), reserved 0, the data.
WriteNegotiateContext(ctx) ==
    LET data == WriteNegotiateContextValue(ctx.context_type, ctx.data)
    IN  LE(ctx.context_type, 2) \o LE(Len(data), 2) \o LE(0, 4) \o data

\* Contexts as received: the known types, type 4, which MS-SMB2 leaves
\* unassigned, and 256, over payloads that fit one type or another.
ReceivedContextTypes == NegotiateContextTypes \cup {4, 256}
ReceivedPayloads ==
    { <<>>, <<1, 0, 2, 0>>, <<1, 0, 0, 0>>, <<1, 0, 1, 0, 1, 0, 7>>,
      <<1, 0, 0, 0, 0, 0, 0, 0, 2, 0>>, <<97, 0>>, <<0, 0>>, <<2, 0, 1, 0, 2, 0>> }

NegCtxInit ==
    /\ \E context_type \in ReceivedContextTypes, payload \in ReceivedPayloads,
          short \in {0, 1} :
        /\ short <= Len(payload)
        /\ ncBytes = LE(context_type, 2) \o LE(Len(payload) - short, 2) \o LE(0, 4)
                     \o payload
    /\ ncStage = "received"
    /\ ncOut = [ok |-> FALSE]
    /\ ncEncoded = <<>>

NegCtxDecode ==
    /\ ncStage = "received"
    /\ ncOut' = ReadNegotiateContext(ncBytes)
    /\ ncStage' = "decoded"
    /\ UNCHANGED <<ncBytes, ncEncoded, notNegCtxVars>>

\* The decoded context written again, as a server forwarding it does.
NegCtxEncode ==
    /\ ncStage = "decoded"
    /\ ncOut.ok
    /\ ncEncoded' = WriteNegotiateContext(ncOut.value)
    /\ ncStage' = "encoded"
    /\ UNCHANGED <<ncBytes, ncOut, notNegCtxVars>>

NegCtxNext == NegCtxDecode \/ NegCtxEncode

NegCtxSpecInit == SessionParked /\ SignParked /\ EncryptParked /\ CodecParked /\ ChainParked /\ AclParked /\ SdParked /\ PlainParked /\ HeaderParked /\ NegCtxInit /\ CreateCtxParked /\ DirParked /\ CopyParked /\ CompressedParked /\ DfsParked /\ SetSecurityParked /\ FsctlParked /\ ProgressParked
SpecNegCtx == NegCtxSpecInit /\ [][NegCtxNext]_vars

(***************************************************************************)
(* CreateContextRequest (smb-msg/src/create.rs:327-377, 498-528).          *)
(***************************************************************************)
\* The names of the create contexts kept here, of the fifteen the
\* make_create_context! invocation declares: AlSi and DHnQ.
AllocationSizeName == <<65, 108, 83, 105>>
DurableHandleRequestName == <<68, 72, 110, 81>>
CreateContextNames == {AllocationSizeName, DurableHandleRequestName}

Align8(pos) == ((pos + 7) \div 8) * 8

\* BinRead for CreateContextRequestData over the data_length bytes d: the
\* variant whose pre_assert holds of the name.  AllocationSize is a u64,
\* DurableHandleRequest a reserved u128.
ReadCreateContextData(name, d) ==
    IF name = AllocationSizeName
    THEN IF Len(d) < 8 THEN [ok |-> FALSE]
         ELSE [ok |-> TRUE, value |-> [allocation_size |-> SubSeq(d, 1, 8)]]
    ELSE IF name = DurableHandleRequestName
    THEN IF Len(d) < 16 THEN [ok |-> FALSE]
         ELSE [ok |-> TRUE, value |-> [durable_request |-> TRUE]]
    ELSE [ok |-> FALSE]

\* BinRead for CreateContextRequest inside a chained item s: the item's
\* next_entry_offset lies at 0 .. 4 and the structure starts at 4, so an
\* offset relative to the item is a position of s.  `debug` says whether
\* `_name_offset.value as u64 - CHAINED_ITEM_PREFIX_SIZE as u64` is checked
\* for overflow (it then panics) or wraps and is added back by the seek.
ReadCreateContext(s, debug) ==
    IF Len(s) < 16 THEN [ok |-> FALSE, panic |-> FALSE]
    ELSE
    LET name_offset == FromLE(Slice(s, 4, 6))
        name_length == FromLE(Slice(s, 6, 8))
        data_offset == FromLE(Slice(s, 10, 12))
        data_length == FromLE(Slice(s, 12, 16))
        name_at == Align8(name_offset)
        name == Slice(s, name_at, name_at + name_length)
        data_at == IF data_length > 0 THEN data_offset ELSE name_at + name_length
        data_end == IF data_at + data_length > Len(s) THEN Len(s)
                    ELSE data_at + data_length
        data == ReadCreateContextData(name, Slice(s, data_at, data_end))
    IN  IF debug /\ name_offset < CHAINED_ITEM_PREFIX_SIZE
        THEN [ok |-> FALSE, panic |-> TRUE]
        ELSE IF name_at + name_length > Len(s) THEN [ok |-> FALSE, panic |-> FALSE]
        ELSE IF debug /\ data_length > 0 /\ data_offset < CHAINED_ITEM_PREFIX_SIZE
        THEN [ok |-> FALSE, panic |-> TRUE]
        ELSE IF data_at > Len(s) \/ ~data.ok \/ data_offset % 8 # 0
        THEN [ok |-> FALSE, panic |-> FALSE]
        ELSE [ok |-> TRUE, panic |-> FALSE,
              value |-> [name |-> name, data |-> data.value]]

\* Contexts as received: a known or an unknown name at offset 16 (or at a
\* broken offset), data of 8 or 16 bytes at offset 24 or at a broken one.
ReceivedContextNames == CreateContextNames \cup {<<84, 101, 115, 116>>, <<65, 108, 83, 73>>}

CreateCtxInit ==
    /\ \E name \in ReceivedContextNames, name_offset \in {16, 2},
          data_offset \in {24, 20}, data_length \in {0, 8, 16}, tail \in {8, 16} :
        ccBytes = LE(0, 4) \o LE(name_offset, 2) \o LE(Len(name), 2) \o LE(0, 2)
                  \o LE(data_offset, 2) \o LE(data_length, 4)
                  \o name \o LE(0, 4) \o [i \in 1 .. tail |-> 7]
    /\ ccDebug \in BOOLEAN
    /\ ccStage = "received"
    /\ ccOut = [ok |-> FALSE, panic |-> FALSE]

CreateCtxDecode ==
    /\ ccStage = "received"
    /\ ccOut' = ReadCreateContext(ccBytes, ccDebug)
    /\ ccStage' = "decoded"
    /\ UNCHANGED <<ccBytes, ccDebug, notCreateCtxVars>>

CreateCtxNext == CreateCtxDecode

CreateCtxSpecInit == SessionParked /\ SignParked /\ EncryptParked /\ CodecParked /\ ChainParked /\ AclParked /\ SdParked /\ PlainParked /\ HeaderParked /\ NegCtxParked /\ CreateCtxInit /\ DirParked /\ CopyParked /\ CompressedParked /\ DfsParked /\ SetSecurityParked /\ FsctlParked /\ ProgressParked
SpecCreateCtx == CreateCtxSpecInit /\ [][CreateCtxNext]_vars

(***************************************************************************)
(* Directory iteration: the requests of Directory::query_with_options      *)
(* (smb/tests/long_dir.rs:120-139), QueryDirectoryRequest and              *)
(* QueryDirectoryResponse::read_output (smb-msg/src/query_dir.rs).         *)
(***************************************************************************)
\* Bound of the iteration model: the most entries a directory holds.
MaxEntries == 3

\* The names of the files: "a", "ab", "b" as UTF-16 code units.
DirNames == {<<97>>, <<97, 98>>, <<98>>}
\* The directories: sequences of distinct names.
Directories ==
    {d \in SeqsUpTo(DirNames, MaxEntries) :
        \A i, j \in 1 .. Len(d) : i # j => d[i] # d[j]}
\* The search patterns: everything, or the names with the prefix "a"
\* (long_dir.rs:121 format!("{}*", LONG_FILE_NAME_PREFIX)).
DirPatterns == {"*", "a*"}
MatchesPattern(name, pattern) == pattern = "*" \/ name[1] = 97
\* The output buffer lengths: one, two or all entries fit.
DirBufLens == {16, 32, 64}

\* The entries of d at the positions after `from` that match the pattern.
RECURSIVE MatchingFrom(_, _, _)
MatchingFrom(d, pattern, from) ==
    IF from >= Len(d) THEN <<>>
    ELSE (IF MatchesPattern(d[from + 1], pattern) THEN <<d[from + 1]>> ELSE <<>>)
         \o MatchingFrom(d, pattern, from + 1)
Matching(d, pattern) == MatchingFrom(d, pattern, 0)

\* The output buffer holding the names: a ChainedItemList of directory
\* information entries with CHAINED_ALIGNMENT (query_dir.rs:121).
DirEncode(names) ==
    WriteChained("FileNamesInformation",
                 [i \in 1 .. Len(names) |-> [file_index |-> 0, file_name |-> names[i]]],
                 <<>>, 0, CHAINED_ALIGNMENT).stream

\* The server's answer to a request with the enumeration at `cursor`: the
\* longest run of matching entries that fits in output_buffer_length.
RECURSIVE BatchCount(_, _, _)
BatchCount(rest, buflen, k) ==
    IF k < Len(rest) /\ Len(DirEncode(SubSeq(rest, 1, k + 1))) <= buflen
    THEN BatchCount(rest, buflen, k + 1)
    ELSE k

\* The enumeration position after k entries were returned, with a defect:
\* the entry after the batch is passed over.
AdvanceCursorSkipping(cursor, k) == cursor + k + 1
\* The enumeration position after k entries were returned.
AdvanceCursor(cursor, k) == cursor + k

\* read_output (query_dir.rs:113-124): the output buffer as a chained list.
ReadOutput(output_buffer) ==
    ReadChained("FileNamesInformation", output_buffer, 0, CHAINED_ALIGNMENT)

DirInit ==
    /\ dqEntries \in Directories
    /\ dqPattern \in DirPatterns
    /\ dqBufLen \in DirBufLens
    /\ dqCursor = 0
    /\ dqStage = "idle"
    /\ dqResponse = [status |-> "none", output_buffer |-> <<>>]
    /\ dqFound = <<>>
    /\ dqRequests = 0

\* The iteration sends its next QueryDirectoryRequest.
DirQuery ==
    /\ dqStage = "idle"
    /\ dqStage' = "sent"
    /\ dqRequests' = dqRequests + 1
    /\ UNCHANGED <<dqEntries, dqPattern, dqBufLen, dqCursor, dqResponse, dqFound,
                   notDirVars>>

\* The server answers: the next entries that fit, or STATUS_NO_MORE_FILES
\* (header.rs:141) when the enumeration is at its end.
DirServe ==
    /\ dqStage = "sent"
    /\ LET rest == LET all == Matching(dqEntries, dqPattern)
                   IN SubSeq(all, dqCursor + 1, Len(all))
           k == BatchCount(rest, dqBufLen, 0)
       IN /\ dqResponse' =
                IF rest = <<>> THEN [status |-> "NoMoreFiles", output_buffer |-> <<>>]
                ELSE IF k = 0 THEN [status |-> "InfoLengthMismatch", output_buffer |-> <<>>]
                ELSE [status |-> "Success", output_buffer |-> DirEncode(SubSeq(rest, 1, k))]
          /\ dqCursor' = IF rest = <<>> THEN dqCursor ELSE AdvanceCursor(dqCursor, k)
    /\ dqStage' = "responded"
    /\ UNCHANGED <<dqEntries, dqPattern, dqBufLen, dqFound, dqRequests, notDirVars>>

\* The iteration takes the response: it ends on STATUS_NO_MORE_FILES, yields
\* the entries of read_output otherwise and goes on.
DirReceive ==
    /\ dqStage = "responded"
    /\ LET out == ReadOutput(dqResponse.output_buffer)
       IN IF dqResponse.status = "NoMoreFiles"
          THEN dqStage' = "ended" /\ dqFound' = dqFound
          ELSE IF dqResponse.status # "Success" \/ ~out.ok
          THEN dqStage' = "failed" /\ dqFound' = dqFound
          ELSE /\ dqStage' = "idle"
               /\ dqFound' = dqFound \o [i \in 1 .. Len(out.value) |-> out.value[i].file_name]
    /\ UNCHANGED <<dqEntries, dqPattern, dqBufLen, dqCursor, dqResponse, dqRequests,
                   notDirVars>>

DirNext == DirQuery \/ DirServe \/ DirReceive

DirSpecInit == SessionParked /\ SignParked /\ EncryptParked /\ CodecParked /\ ChainParked /\ AclParked /\ SdParked /\ PlainParked /\ HeaderParked /\ NegCtxParked /\ CreateCtxParked /\ DirInit /\ CopyParked /\ CompressedParked /\ DfsParked /\ SetSecurityParked /\ FsctlParked /\ ProgressParked
SpecDir == DirSpecInit /\ [][DirNext]_vars
\* The iteration is sequential code and the server answers every request:
\* while it has neither ended nor failed, its next step is taken.  Every
\* action of DirNext changes dqStage and one of them is enabled exactly in
\* the stages of DirRunning, so DirAdvance is enabled when DirNext is and a
\* step of DirNext is a step of DirAdvance.
DirRunning == {"idle", "sent", "responded"}
DirAdvance == dqStage \in DirRunning /\ dqStage' \in DirRunning \cup {"ended", "failed"}
SpecDirFair == SpecDir /\ WF_dqStage(DirAdvance)

(***************************************************************************)
(* The copy command: CopyFile::copy_to (smb-cli/src/copy.rs:92-177).       *)
(***************************************************************************)
CopyServers == {"srv1", "srv2"}
CopyShares == {"share1", "share2"}
CopyPaths ==
    {[kind |-> "Local"]}
    \cup {[kind |-> "Remote", server |-> sv, share |-> sh] :
            sv \in CopyServers, sh \in CopyShares}
CopyFeatures == {"async", "multi_threaded", "single_threaded"}
\* The channels client.get_channels can return: their ids.
CopyChannelSets == {{1}, {1, 2}}

\* copy.rs:103, 110, 126: the workers per entry of the map.
R2R_WORKERS_NO_MC == 8
R2L_L2R_WORKERS_NO_MC == 16
L2R_R2L_PER_CHANNEL_WORKERS == 16

\* _get_channel_to_jobs_map (copy.rs:92-148): the set of <<channel, jobs>>
\* pairs, the channel None being 0; `channels` is what get_channels returns.
GetChannelToJobsMap(from, to, feature, multichannel, channels) ==
    IF feature = "single_threaded" THEN {<<0, 1>>}
    ELSE IF from.kind = "Remote" /\ to.kind = "Remote" THEN {<<0, R2R_WORKERS_NO_MC>>}
    ELSE IF ~multichannel THEN {<<0, R2L_L2R_WORKERS_NO_MC>>}
    ELSE {<<c, L2R_R2L_PER_CHANNEL_WORKERS>> : c \in channels}

\* copy.rs:163-166 with a defect: the shares are not compared.
OnSameServer(from, to) == to.server = from.server
\* copy.rs:163-166: the condition of the server-side copy.
OnSameShare(from, to) == to.server = from.server /\ to.share = from.share

\* The match of copy_to (copy.rs:156-175): the method of the copy.
CopyMethod(from, to) ==
    IF from.kind = "Local" THEN "do_copy"
    ELSE IF to.kind = "Local" THEN "do_copy"
    ELSE IF OnSameShare(from, to) THEN "srv_copy" ELSE "do_copy"

\* The requests a method sends: srv_copy asks for a resume key and sends
\* copy chunk requests; do_copy reads and writes chunks, of which the
\* ones of a remote endpoint are requests.
CopyRequests(method, from, to) ==
    IF method = "srv_copy" THEN {"SrvRequestResumeKey", "SrvCopychunk"}
    ELSE (IF from.kind = "Remote" THEN {"Read"} ELSE {})
         \cup (IF to.kind = "Remote" THEN {"Write"} ELSE {})

\* copy (copy.rs:258-266) refuses two local paths and opens both files.
CopyInit ==
    /\ cpFrom \in CopyPaths
    /\ cpTo \in CopyPaths
    /\ ~(cpFrom.kind = "Local" /\ cpTo.kind = "Local")
    /\ cpFeature \in CopyFeatures
    /\ cpMultichannel \in BOOLEAN
    /\ cpStage = "opened"
    /\ cpMethod = "none"
    /\ cpJobs = {}
    /\ cpOps = {}

\* copy_to with get_channels, if it is called, returning `channels`.
CopyTo ==
    /\ cpStage = "opened"
    /\ \E channels \in CopyChannelSets :
          cpJobs' = GetChannelToJobsMap(cpFrom, cpTo, cpFeature, cpMultichannel, channels)
    /\ cpMethod' = CopyMethod(cpFrom, cpTo)
    /\ cpOps' = CopyRequests(cpMethod', cpFrom, cpTo)
    /\ cpStage' = "copied"
    /\ UNCHANGED <<cpFrom, cpTo, cpFeature, cpMultichannel, notCopyVars>>

\* copy_to with get_channels failing: the `?` returns before the match.
CopyToGetChannelsFails ==
    /\ cpStage = "opened"
    /\ cpFeature # "single_threaded"
    /\ ~(cpFrom.kind = "Remote" /\ cpTo.kind = "Remote")
    /\ cpMultichannel
    /\ cpStage' = "failed"
    /\ UNCHANGED <<cpFrom, cpTo, cpFeature, cpMultichannel, cpMethod, cpJobs, cpOps,
                   notCopyVars>>

CopyNext == CopyTo \/ CopyToGetChannelsFails

CopySpecInit == SessionParked /\ SignParked /\ EncryptParked /\ CodecParked /\ ChainParked /\ AclParked /\ SdParked /\ PlainParked /\ HeaderParked /\ NegCtxParked /\ CreateCtxParked /\ DirParked /\ CopyInit /\ CompressedParked /\ DfsParked /\ SetSecurityParked /\ FsctlParked /\ ProgressParked
SpecCopy == CopySpecInit /\ [][CopyNext]_vars

(***************************************************************************)
(* CompressedMessage (smb-msg/src/compressed.rs:18-132).                   *)
(***************************************************************************)
\* Bound of the compression model: the most items of a chained message.
MaxChainedItems == 2

\* negotiate.rs:402-409  enum CompressionAlgorithm, as its u16.
CompressionAlgorithms == 0 .. 5
\* negotiate.rs:413-421: LZNT1, LZ77, LZ77Huffman, LZ4.
OriginalSizeRequired(algo) == algo \in {1, 2, 3, 5}

\* compressed.rs:67-77: MAGIC_SIZE + two u32 + the algorithm + a u16.
UNCHAINED_STRUCT_SIZE == 16
\* compressed.rs:97: size_of::<u32>() + 4.
CHAINED_STRUCT_SIZE == 8
\* b"\xfcSMB"
CompressedMagic == <<252, 83, 77, 66>>

RECURSIVE SumPayloads(_)
SumPayloads(items) ==
    IF items = <<>> THEN 0 ELSE Len(Head(items).payload_data) + SumPayloads(Tail(items))

\* CompressedMessage::total_size (compressed.rs:27-38).
TotalSize(msg) ==
    IF msg.kind = "Unchained" THEN Len(msg.data) + UNCHAINED_STRUCT_SIZE
    ELSE SumPayloads(msg.items) + Len(msg.items) * 4 + CHAINED_STRUCT_SIZE

\* BinWrite for CompressedChainedItem (compressed.rs:114-132): algorithm,
\* flags, length (payload plus 4 when original_size is written),
\* original_size if required, payload.
WriteCompressedChainedItem(item) ==
    LET required == OriginalSizeRequired(item.compression_algorithm)
    IN IF ~((~item.original_size.some) # required)
       THEN [ok |-> FALSE, bytes |-> <<>>]
       ELSE [ok |-> TRUE,
             bytes |-> LE(item.compression_algorithm, 2) \o LE(item.flags, 2)
                       \o LE(Len(item.payload_data) + (IF required THEN 4 ELSE 0), 4)
                       \o (IF required THEN LE(item.original_size.v, 4) ELSE <<>>)
                       \o item.payload_data]

RECURSIVE WriteCompressedChainedItems(_)
WriteCompressedChainedItems(items) ==
    IF items = <<>> THEN [ok |-> TRUE, bytes |-> <<>>]
    ELSE LET h == WriteCompressedChainedItem(Head(items))
             t == WriteCompressedChainedItems(Tail(items))
         IN [ok |-> h.ok /\ t.ok, bytes |-> h.bytes \o t.bytes]

\* BinWrite for CompressedMessage (compressed.rs:20-23, 47-65, 86-93).
WriteCompressedMessage(msg) ==
    IF msg.kind = "Unchained"
    THEN IF msg.compression_algorithm = 0 THEN [ok |-> FALSE, bytes |-> <<>>]
         ELSE [ok |-> TRUE,
               bytes |-> CompressedMagic \o LE(msg.original_size, 4)
                         \o LE(msg.compression_algorithm, 2) \o LE(0, 2) \o LE(0, 4)
                         \o msg.data]
    ELSE LET w == WriteCompressedChainedItems(msg.items)
         IN [ok |-> w.ok,
             bytes |-> IF w.ok THEN CompressedMagic \o LE(msg.original_size, 4) \o w.bytes
                       ELSE <<>>]

\* The payloads, the items and the messages of the model.
CompressedPayloads == {<<>>, <<7>>, <<7, 8>>}
CompressedItems ==
    [compression_algorithm : {0, 1, 4}, flags : {1},
     original_size : {None, Some(2)}, payload_data : CompressedPayloads]
CompressedMessages ==
    {[kind |-> "Unchained", original_size |-> 2, compression_algorithm |-> a, data |-> d] :
        a \in CompressionAlgorithms, d \in CompressedPayloads}
    \cup {[kind |-> "Chained", original_size |-> 2, items |-> its] :
            its \in SeqsUpTo(CompressedItems, MaxChainedItems)}

CompressedInit ==
    /\ cmMsg \in CompressedMessages
    /\ cmStage = "built"
    /\ cmBytes = <<>>
    /\ cmTotal = 0

\* The sender asks for total_size and writes the message.
CompressedEncode ==
    /\ cmStage = "built"
    /\ LET w == WriteCompressedMessage(cmMsg)
       IN /\ cmStage' = IF w.ok THEN "encoded" ELSE "failed"
          /\ cmBytes' = w.bytes
    /\ cmTotal' = TotalSize(cmMsg)
    /\ UNCHANGED <<cmMsg, notCompressedVars>>

CompressedNext == CompressedEncode

CompressedSpecInit == SessionParked /\ SignParked /\ EncryptParked /\ CodecParked /\ ChainParked /\ AclParked /\ SdParked /\ PlainParked /\ HeaderParked /\ NegCtxParked /\ CreateCtxParked /\ DirParked /\ CopyParked /\ CompressedInit /\ DfsParked /\ SetSecurityParked /\ FsctlParked /\ ProgressParked
SpecCompressed == CompressedSpecInit /\ [][CompressedNext]_vars

(***************************************************************************)
(* ReferralEntryValueV3 (smb-msg/src/dfsc.rs:247-369).                     *)
(***************************************************************************)
\* Bound of the referral model: the most expanded names of an entry.
MaxExpandedNames == 2

\* dfsc.rs:290-291  EntryV3Value::OFFSET_FROM_ENTRY_START.
OFFSET_FROM_ENTRY_START == 12
\* dfsc.rs:265-271  ReferralEntryFlags: name_list_referral is the second bit.
NameListReferralBit == 2
NameListReferral(flags) == (flags \div NameListReferralBit) % 2 = 1

\* NullWideString: UTF-16 code units up to a zero unit.
WriteNullWide(units) == WriteWide(units) \o <<0, 0>>
RECURSIVE ReadNullWide(_, _)
ReadNullWide(s, pos) ==
    IF pos + 2 > Len(s) THEN [ok |-> FALSE]
    ELSE LET u == s[pos + 1] + 256 * s[pos + 2]
         IN IF u = 0 THEN [ok |-> TRUE, value |-> <<>>, pos |-> pos + 2]
            ELSE LET r == ReadNullWide(s, pos + 2)
                 IN IF r.ok THEN [ok |-> TRUE, value |-> <<u>> \o r.value, pos |-> r.pos]
                    ELSE r

RECURSIVE ReadNullWides(_, _, _)
ReadNullWides(s, pos, count) ==
    IF count = 0 THEN [ok |-> TRUE, value |-> <<>>]
    ELSE LET h == ReadNullWide(s, pos)
         IN IF ~h.ok THEN [ok |-> FALSE]
            ELSE LET t == ReadNullWides(s, h.pos, count - 1)
                 IN IF t.ok THEN [ok |-> TRUE, value |-> <<h.value>> \o t.value] ELSE t

\* BinRead for EntryV3V4DfsPaths (dfsc.rs:294-336), the entry starting at
\* position 0 of s and the structure at OFFSET_FROM_ENTRY_START.
ReadEntryV3V4DfsPaths(s) ==
    LET at == OFFSET_FROM_ENTRY_START IN
    IF Len(s) < at + 22 THEN [ok |-> FALSE]
    ELSE LET dfs_path_offset == FromLE(Slice(s, at, at + 2))
             dfs_alternate_path_offset == FromLE(Slice(s, at + 2, at + 4))
             network_address_offset == FromLE(Slice(s, at + 4, at + 6))
         IN IF \/ dfs_path_offset < OFFSET_FROM_ENTRY_START
               \/ dfs_alternate_path_offset < OFFSET_FROM_ENTRY_START
               \/ network_address_offset < OFFSET_FROM_ENTRY_START
            THEN [ok |-> FALSE]
            ELSE LET p == ReadNullWide(s, dfs_path_offset)
                     a == ReadNullWide(s, dfs_alternate_path_offset)
                     n == ReadNullWide(s, network_address_offset)
                 IN IF ~(p.ok /\ a.ok /\ n.ok) THEN [ok |-> FALSE]
                    ELSE [ok |-> TRUE,
                          value |-> [variant |-> "DfsPath", dfs_path |-> p.value,
                                     dfs_alternate_path |-> a.value,
                                     network_address |-> n.value]]

\* BinRead for EntryV3DCRefs (dfsc.rs:338-369).
ReadEntryV3DCRefs(s) ==
    LET at == OFFSET_FROM_ENTRY_START IN
    IF Len(s) < at + 6 THEN [ok |-> FALSE]
    ELSE LET special_name_offset == FromLE(Slice(s, at, at + 2))
             number_of_expanded_names == FromLE(Slice(s, at + 2, at + 4))
             expanded_name_offset == FromLE(Slice(s, at + 4, at + 6))
         IN IF special_name_offset < OFFSET_FROM_ENTRY_START THEN [ok |-> FALSE]
            ELSE IF expanded_name_offset < OFFSET_FROM_ENTRY_START THEN [ok |-> FALSE]
            ELSE LET sp == ReadNullWide(s, special_name_offset)
                     ex == IF number_of_expanded_names > Len(s) THEN [ok |-> FALSE]
                           ELSE ReadNullWides(s, expanded_name_offset,
                                              number_of_expanded_names)
                 IN IF ~(sp.ok /\ ex.ok) THEN [ok |-> FALSE]
                    ELSE [ok |-> TRUE,
                          value |-> [variant |-> "NetworkAddress",
                                     special_name |-> sp.value,
                                     expanded_names |-> ex.value]]

\* BinRead for EntryV3Value (dfsc.rs:273-283): the first variant whose
\* pre_assert holds of the flags.
ReadEntryV3Value(s, flags) ==
    IF NameListReferral(flags) THEN ReadEntryV3V4DfsPaths(s)
    ELSE IF ~NameListReferral(flags) THEN ReadEntryV3DCRefs(s)
    ELSE [ok |-> FALSE]

\* BinRead for ReferralEntry holding a ReferralEntryValueV3 (dfsc.rs:133-144,
\* 247-257): version, size, server_type, flags, time_to_live, value.
ReadReferralEntryV3(s) ==
    IF Len(s) < OFFSET_FROM_ENTRY_START THEN [ok |-> FALSE]
    ELSE LET version == FromLE(Slice(s, 0, 2))
             server_type == FromLE(Slice(s, 4, 6))
             flags == FromLE(Slice(s, 6, 8))
         IN IF version # 3 \/ server_type \notin {0, 1} THEN [ok |-> FALSE]
            ELSE ReadEntryV3Value(s, flags)

\* The entry as the server lays it out (MS-DFSC 2.2.5.3): the fixed part,
\* then the strings, the offsets counted from the start of the entry.
DfsNames == {<<97>>, <<98, 99>>}
\* dfsc.rs:298-313: three u16 offsets and the u128 service site guid.
DfsPathsFixedSize == 22
\* dfsc.rs:342-353: two u16 offsets and the u16 count.
DcRefsFixedSize == 6
EncodeReferralEntryV3(e) ==
    LET head == LE(3, 2) \o LE(0, 2) \o LE(e.server_type, 2)
                \o LE(IF e.name_list_referral THEN NameListReferralBit ELSE 0, 2)
                \o LE(300, 4)
    IN IF e.layout = "DfsPaths"
       THEN LET o1 == OFFSET_FROM_ENTRY_START + DfsPathsFixedSize
                o2 == o1 + 2 * Len(e.dfs_path) + 2
                o3 == o2 + 2 * Len(e.dfs_alternate_path) + 2
            IN head \o LE(o1, 2) \o LE(o2, 2) \o LE(o3, 2) \o Zeros(16)
               \o WriteNullWide(e.dfs_path) \o WriteNullWide(e.dfs_alternate_path)
               \o WriteNullWide(e.network_address)
       ELSE LET o1 == OFFSET_FROM_ENTRY_START + DcRefsFixedSize
                o2 == o1 + 2 * Len(e.special_name) + 2
            IN head \o LE(o1, 2) \o LE(Len(e.expanded_names), 2) \o LE(o2, 2)
               \o WriteNullWide(e.special_name)
               \o Flatten([i \in 1 .. Len(e.expanded_names) |->
                             WriteNullWide(e.expanded_names[i])])

ReferralEntriesV3 ==
    [layout : {"DfsPaths"}, name_list_referral : BOOLEAN, server_type : {0, 1},
     dfs_path : DfsNames, dfs_alternate_path : DfsNames, network_address : DfsNames]
    \cup [layout : {"DCRefs"}, name_list_referral : BOOLEAN, server_type : {0, 1},
          special_name : DfsNames, expanded_names : SeqsUpTo(DfsNames, MaxExpandedNames)]

DfsInit ==
    /\ dfEntry \in ReferralEntriesV3
    /\ dfBytes = EncodeReferralEntryV3(dfEntry)
    /\ dfStage = "received"
    /\ dfOut = [ok |-> FALSE]

\* ReferralEntry::read over the received bytes.
DfsDecode ==
    /\ dfStage = "received"
    /\ dfOut' = ReadReferralEntryV3(dfBytes)
    /\ dfStage' = "decoded"
    /\ UNCHANGED <<dfEntry, dfBytes, notDfsVars>>

DfsNext == DfsDecode

DfsSpecInit == SessionParked /\ SignParked /\ EncryptParked /\ CodecParked /\ ChainParked /\ AclParked /\ SdParked /\ PlainParked /\ HeaderParked /\ NegCtxParked /\ CreateCtxParked /\ DirParked /\ CopyParked /\ CompressedParked /\ DfsInit /\ SetSecurityParked /\ FsctlParked /\ ProgressParked
SpecDfs == DfsSpecInit /\ [][DfsNext]_vars

(***************************************************************************)
(* set_security (smb-cli/src/security.rs:160-262).                         *)
(***************************************************************************)
\* Bounds of the set-security model: the ACEs of the queried DACL, the
\* --remove-dacl and the --add-dacl options given.
MaxDaclAces == 2
MaxRemove == 1
MaxAdd == 2

\* An ACE of the queried DACL: "Other" is any AceValue variant the `_` arms
\* of set_security take.
DaclSids == {1, 2}
DaclAces == [inherited : {FALSE}, kind : {"AccessAllowed", "AccessDenied", "Other"},
             sid : DaclSids, mask : {1}]
\* DaclEntryArg (security.rs:50-55): allow or deny, the SID, the mask.
DaclEntryArgs == [allow : {"AccessAllowed", "AccessDenied"}, sid : DaclSids, mask : {2}]

\* The predicate of the retain and of the find (security.rs:199-203,
\* 226-230): an access allowed or access denied ACE of the SID.
IsAccessAceOf(ace, sid) ==
    ace.kind \in {"AccessAllowed", "AccessDenied"} /\ ace.sid = sid

\* security.rs:197-212 with a defect: nothing is removed.
RemoveDaclNothing(aces, sids) == aces
\* The removal loop (security.rs:197-212).
RemoveDacl(aces, sids) ==
    SelectSeq(aces, LAMBDA ace : \A i \in 1 .. Len(sids) : ~IsAccessAceOf(ace, sids[i]))

\* One iteration of the addition loop (security.rs:215-258).
AddDaclEntry(aces, entry, force) ==
    LET found == {i \in 1 .. Len(aces) : IsAccessAceOf(aces[i], entry.sid)}
    IN IF found # {}
       THEN IF ~force THEN aces
            ELSE LET i == CHOOSE k \in found : \A j \in found : k <= j
                 IN OrderAces([aces EXCEPT ![i] = [inherited |-> aces[i].inherited,
                                                  kind |-> entry.allow,
                                                  sid |-> entry.sid,
                                                  mask |-> entry.mask]])
       ELSE OrderAces(Append(aces, [inherited |-> FALSE, kind |-> entry.allow,
                                    sid |-> entry.sid, mask |-> entry.mask]))

\* The addition loop (security.rs:214-259) from entry i on.
RECURSIVE AddDacl(_, _, _, _)
AddDacl(aces, entries, i, force) ==
    IF i > Len(entries) THEN aces
    ELSE AddDacl(AddDaclEntry(aces, entries[i], force), entries, i + 1, force)

\* The new DACL of set_security (security.rs:190-260).
NewDacl(aces, remove, add, force) == AddDacl(RemoveDacl(aces, remove), add, 1, force)

\* SecurityDescriptor::dacl of an object without a DACL.
NoDacl == [some |-> FALSE, v |-> <<>>]

SetSecurityInit ==
    /\ ssDacl \in {NoDacl} \cup {Some(a) : a \in SeqsUpTo(DaclAces, MaxDaclAces)}
    /\ ssRemove \in SeqsUpTo(DaclSids, MaxRemove)
    /\ ssAdd \in SeqsUpTo(DaclEntryArgs, MaxAdd)
    /\ ssForce \in BOOLEAN
    /\ ssStage = "start"
    /\ ssNew = <<>>

\* set_security with options: the DACL is queried, changed and set.
SetSecurity ==
    /\ ssStage = "start"
    /\ ssAdd # <<>> \/ ssRemove # <<>>
    /\ ssDacl.some
    /\ ssNew' = NewDacl(ssDacl.v, ssRemove, ssAdd, ssForce)
    /\ ssStage' = "set"
    /\ UNCHANGED <<ssDacl, ssRemove, ssAdd, ssForce, notSetSecurityVars>>

\* set_security without options (security.rs:177-180): nothing to set.
SetSecurityNothing ==
    /\ ssStage = "start"
    /\ ssAdd = <<>> /\ ssRemove = <<>>
    /\ ssStage' = "nothing"
    /\ UNCHANGED <<ssDacl, ssRemove, ssAdd, ssForce, ssNew, notSetSecurityVars>>

\* set_security on an object without a DACL (security.rs:187-190).
SetSecurityNoDacl ==
    /\ ssStage = "start"
    /\ ssAdd # <<>> \/ ssRemove # <<>>
    /\ ~ssDacl.some
    /\ ssStage' = "failed"
    /\ UNCHANGED <<ssDacl, ssRemove, ssAdd, ssForce, ssNew, notSetSecurityVars>>

SetSecurityNext == SetSecurity \/ SetSecurityNothing \/ SetSecurityNoDacl

SetSecuritySpecInit == SessionParked /\ SignParked /\ EncryptParked /\ CodecParked /\ ChainParked /\ AclParked /\ SdParked /\ PlainParked /\ HeaderParked /\ NegCtxParked /\ CreateCtxParked /\ DirParked /\ CopyParked /\ CompressedParked /\ DfsParked /\ SetSecurityInit /\ FsctlParked /\ ProgressParked
SpecSetSecurity == SetSecuritySpecInit /\ [][SetSecurityNext]_vars

(***************************************************************************)
(* IoctlResponse::parse_fsctl::<SrvCopychunkResponse>                      *)
(* (smb-msg/src/ioctl/msg.rs:239-248, ioctl/fsctl.rs:271-287).             *)
(***************************************************************************)
\* Bound of the model: the longest output buffer.
MaxOutBuffer == 14

\* fsctl.rs:28, 30  FsctlCodes::SrvCopychunk, FsctlCodes::SrvRequestResumeKey.
FsctlSrvCopychunk == 1327346
FsctlSrvRequestResumeKey == 1310840
\* impl_fsctl_response!(SrvCopychunk, SrvCopychunkResponse) (fsctl.rs:287).
SrvCopychunkResponseCodes == {FsctlSrvCopychunk}

\* BinRead for SrvCopychunkResponse (fsctl.rs:271-285): three u32.
ReadSrvCopychunkResponse(s) ==
    IF Len(s) < 12 THEN [ok |-> FALSE]
    ELSE [ok |-> TRUE,
          value |-> [chunks_written |-> FromLE(Slice(s, 0, 4)),
                     chunk_bytes_written |-> FromLE(Slice(s, 4, 8)),
                     total_bytes_written |-> FromLE(Slice(s, 8, 12))]]

\* parse_fsctl (msg.rs:239-248): the code is checked, then the result of
\* read_le is unwrapped.
ParseFsctl(ctl_code, out_buffer) ==
    IF ctl_code \notin SrvCopychunkResponseCodes
    THEN [ok |-> FALSE, panic |-> FALSE, error |-> "MissingFsctlDefinition"]
    ELSE LET r == ReadSrvCopychunkResponse(out_buffer)
         IN IF r.ok THEN [ok |-> TRUE, panic |-> FALSE, error |-> "none", value |-> r.value]
            ELSE [ok |-> FALSE, panic |-> TRUE, error |-> "none"]

\* The output buffers of the model: every length, a few fillings.
OutBuffers == {[i \in 1 .. n |-> b] : n \in 0 .. MaxOutBuffer, b \in 0 .. 3}

FsctlInit ==
    /\ fsCtlCode \in {FsctlSrvCopychunk, FsctlSrvRequestResumeKey}
    /\ fsOutBuffer \in OutBuffers
    /\ fsStage = "received"
    /\ fsOut = [ok |-> FALSE, panic |-> FALSE, error |-> "none"]

\* The caller parses the response it received.
FsctlParse ==
    /\ fsStage = "received"
    /\ fsOut' = ParseFsctl(fsCtlCode, fsOutBuffer)
    /\ fsStage' = "parsed"
    /\ UNCHANGED <<fsCtlCode, fsOutBuffer, notFsctlVars>>

FsctlNext == FsctlParse

FsctlSpecInit == SessionParked /\ SignParked /\ EncryptParked /\ CodecParked /\ ChainParked /\ AclParked /\ SdParked /\ PlainParked /\ HeaderParked /\ NegCtxParked /\ CreateCtxParked /\ DirParked /\ CopyParked /\ CompressedParked /\ DfsParked /\ SetSecurityParked /\ FsctlInit /\ ProgressParked
SpecFsctl == FsctlSpecInit /\ [][FsctlNext]_vars

(***************************************************************************)
(* CopyFile::do_copy and progress_loop (smb-cli/src/copy.rs:179-246).      *)
(***************************************************************************)
\* Bound of the model: the most chunks of a file.
MaxChunks == 6

\* do_copy after prepare_parallel_copy and Self::progress: the copy is
\* about to start and the reporter has been spawned.
ProgressInit ==
    /\ pgTotal \in 0 .. MaxChunks
    /\ pgCopied = 0
    /\ pgCopy = "running"
    /\ pgDoCopy = "copying"
    /\ pgReporter = "polling"

\* A worker completes a chunk and reports it to the shared counter.
WorkerCopiesChunk ==
    /\ pgCopy = "running"
    /\ pgCopied < pgTotal
    /\ pgCopied' = pgCopied + 1
    /\ UNCHANGED <<pgTotal, pgCopy, pgDoCopy, pgReporter, notProgressVars>>

\* A read or write of a chunk fails: the copy ends, the chunk is not
\* reported.
WorkerFails ==
    /\ pgCopy = "running"
    /\ pgCopied < pgTotal
    /\ pgCopy' = "failed"
    /\ UNCHANGED <<pgTotal, pgCopied, pgDoCopy, pgReporter, notProgressVars>>

\* All chunks are copied: start_parallel_copy returns Ok and do_copy goes on
\* to wait for the reporter (copy.rs:193-198).
CopyCompletes ==
    /\ pgCopy = "running"
    /\ pgCopied = pgTotal
    /\ pgCopy' = "ok"
    /\ pgDoCopy' = "joining"
    /\ UNCHANGED <<pgTotal, pgCopied, pgReporter, notProgressVars>>

\* start_parallel_copy(..).await? with an Err (copy.rs:193): do_copy
\* returns the error; the handle of the reporter is dropped, not joined.
DoCopyReturnsErr ==
    /\ pgCopy = "failed"
    /\ pgDoCopy = "copying"
    /\ pgDoCopy' = "returnedErr"
    /\ UNCHANGED <<pgTotal, pgCopied, pgCopy, pgReporter, notProgressVars>>

\* progress_handle.await / .join() (copy.rs:195-198).
DoCopyJoins ==
    /\ pgDoCopy = "joining"
    /\ pgReporter = "finished"
    /\ pgDoCopy' = "returnedOk"
    /\ UNCHANGED <<pgTotal, pgCopied, pgCopy, pgReporter, notProgressVars>>

\* The exit condition of progress_loop (copy.rs:241).
LoopEnds(bytes_copied, total_size) == bytes_copied >= total_size

\* One iteration of progress_loop (copy.rs:238-244).
ReporterPolls ==
    /\ pgReporter = "polling"
    /\ pgReporter' = IF LoopEnds(pgCopied, pgTotal) THEN "finished" ELSE "sleeping"
    /\ UNCHANGED <<pgTotal, pgCopied, pgCopy, pgDoCopy, notProgressVars>>

\* sleep(100 ms) returns (copy.rs:244).
ReporterWakes ==
    /\ pgReporter = "sleeping"
    /\ pgReporter' = "polling"
    /\ UNCHANGED <<pgTotal, pgCopied, pgCopy, pgDoCopy, notProgressVars>>

ProgressNext ==
    \/ WorkerCopiesChunk
    \/ WorkerFails
    \/ CopyCompletes
    \/ DoCopyReturnsErr
    \/ DoCopyJoins
    \/ ReporterPolls
    \/ ReporterWakes

ProgressSpecInit == SessionParked /\ SignParked /\ EncryptParked /\ CodecParked /\ ChainParked /\ AclParked /\ SdParked /\ PlainParked /\ HeaderParked /\ NegCtxParked /\ CreateCtxParked /\ DirParked /\ CopyParked /\ CompressedParked /\ DfsParked /\ SetSecurityParked /\ FsctlParked /\ ProgressInit
SpecProgress == ProgressSpecInit /\ [][ProgressNext]_vars
\* The workers, do_copy and the reporter are threads or tasks that are
\* scheduled: each takes its next step.  A failure is not bound to happen.
SpecProgressFair ==
    /\ SpecProgress
    /\ WF_vars(WorkerCopiesChunk)
    /\ WF_vars(CopyCompletes)
    /\ WF_vars(DoCopyReturnsErr)
    /\ WF_vars(DoCopyJoins)
    /\ WF_vars(ReporterPolls)
    /\ WF_vars(ReporterWakes)

(***************************************************************************)
(* Properties of the session (SpecSession).                                *)
(***************************************************************************)
Finished(p) == thr[p].pc = "done"

\* C1: across any interleaving of logoff invocations on one session (explicit
\* calls and the destructor) at most one LogoffRequest is sent, and every
\* invocation after the first returns success without sending anything.
C1_AtMostOneLogoffRequest ==
    /\ wire.logoff <= 1
    /\ \A p \in Procs :
         (thr[p].op = "logoff" /\ thr[p].ord > 1) =>
            /\ thr[p].sent = 0
            /\ Finished(p)
            /\ thr[p].res = "Ok"

\* C1 witness: the first invocation sent its LogoffRequest and a later one
\* (a second explicit call, or the destructor) has returned.
C1_Witness ==
    /\ wire.logoff = 1
    /\ \E p \in Callers : thr[p].op = "logoff" /\ thr[p].ord = 2 /\ Finished(p)
    /\ thr[Dropper].op = "logoff" /\ thr[Dropper].ord = 3 /\ Finished(Dropper)

\* C2: bind fails with InvalidState, without starting a session setup and
\* without adding a channel, whenever the session is not Ready, or allows
\* unsigned messages, or the connection's dialect or client GUID differs.
C2_BindRefused ==
    \A p \in Callers :
        (thr[p].op = "bind" /\ thr[p].refuse) =>
            /\ Finished(p)
            /\ thr[p].res = "InvalidState"
            /\ thr[p].sent = 0
            /\ thr[p].chan = -1
            /\ thr[p].chan \notin DOMAIN altChannels

\* C2 witness: a bind on a ready guest session, to a connection of the same
\* dialect and client GUID, has been refused.
C2_Witness ==
    /\ allowUnsigned /\ sessState = "Ready"
    /\ \E p \in Callers : /\ thr[p].op = "bind" /\ thr[p].refuse
                          /\ thr[p].conn = SessionConn /\ Finished(p)
                          /\ thr[p].res = "InvalidState"

\* C3: the session always has exactly one primary channel, with channel id 0,
\* and every alternate channel has a non-zero id different from every other
\* channel id of the session, also when binds run concurrently.
C3_ChannelIds ==
    /\ FIRST_CHANNEL_ID \in DOMAIN channelHandlers
    /\ {c \in DOMAIN channelHandlers : channelHandlers[c] = PrimaryHandler}
           = {FIRST_CHANNEL_ID}
    /\ FIRST_CHANNEL_ID \notin DOMAIN altChannels
    /\ \A i, j \in 1 .. Len(hist.bound) :
          i # j => hist.bound[i].chan # hist.bound[j].chan
    /\ \A i \in 1 .. Len(hist.bound) :
          /\ hist.bound[i].chan \in DOMAIN altChannels
          /\ altChannels[hist.bound[i].chan] = hist.bound[i].conn
    /\ \A p, q \in Callers :
          (p # q /\ thr[p].op = "bind" /\ thr[q].op = "bind"
                 /\ thr[p].chan # -1 /\ thr[q].chan # -1)
             => thr[p].chan # thr[q].chan

\* C3 witness: two binds running concurrently have both added their channel.
C3_Witness ==
    /\ \E p, q \in Callers :
          p # q /\ thr[p].pc = "insertHandler" /\ thr[q].pc = "insertHandler"
    /\ Cardinality(DOMAIN altChannels) >= 2

\* C4: when the logoff performed by the destructor fails, destruction still
\* completes: the error is logged, not propagated, and nothing is retried.
C4_FailedLogoffInDrop ==
    (thr[Dropper].op = "logoff" /\ thr[Dropper].failed) =>
        /\ thr[Dropper].pc \in {"tempdrop", "done"}
        /\ thr[Dropper].res = "Logged"
        /\ errorLog = 1
        /\ thr[Dropper].sent <= 1

\* C4 witness: the destructor's logoff failed after its request left, and the
\* destructor (with its task) has ended.
C4_Witness ==
    /\ thr[Dropper].op = "logoff" /\ thr[Dropper].failed
    /\ thr[Dropper].sent = 1
    /\ Finished(Dropper)

\* C5: whenever Session::logoff returns Ok the session has been invalidated
\* (it is no longer Ready).
C5_LogoffOkImpliesInvalidated ==
    \A p \in Callers :
        (thr[p].op = "logoff" /\ Finished(p) /\ thr[p].res = "Ok")
            => sessState # "Ready"

(***************************************************************************)
(* Properties of message signing (SpecSign).                               *)
(***************************************************************************)
\* The bytes of the framed message after the 64-byte header, all buffers in order.
PayloadOf(data) ==
    LET all == Flatten(data) IN Slice(all, STRUCT_SIZE, Len(all))

\* The signature as the protocol defines it: over the serialised header with
\* a zero signature field, then the payload.
RefSignature(algo, h, payload) ==
    SigFinalize(SigUpdate(SigUpdate(SigStart(algo, h),
                                    WriteHeader([h EXCEPT !.signature = 0]).bytes),
                          payload))

\* C8: the signature sign_message stores is the one computed over the
\* serialised 64-byte header with a zeroed signature field followed by the
\* payload bytes of all buffers in order, it is written into the header at
\* the start of the first buffer, and the computation gives the same value
\* whatever signature the header held before.
C8_SignatureOverZeroedHeaderAndPayload ==
    (sgStage = "signed" /\ ~sgGhost.tampered) =>
        /\ sgHeader.signature = RefSignature(sgAlgo, sgHeader, PayloadOf(sgData))
        /\ Slice(sgData[1], 0, STRUCT_SIZE) = WriteHeader(sgHeader).bytes
        /\ \A prior \in SigSamples :
             LET c == CalculateSignature(sgAlgo, [sgHeader EXCEPT !.signature = prior], sgData)
             IN c.ok /\ c.sig = sgHeader.signature

\* A header that held a non-zero signature was signed, its payload in a
\* second buffer.
C8_Witness ==
    /\ sgStage = "signed"
    /\ ~sgGhost.tampered
    /\ sgGhost.prior # 0
    /\ Len(sgData) = 2
    /\ Len(sgData[2]) = MaxPayload
    /\ sgHeader.signature # sgGhost.prior

\* C9: verify_signature fails with SignatureVerificationFailed exactly when
\* the signature recomputed over the received message differs from the one
\* its header carries, and a message signed by sign_message that was not
\* modified verifies.
C9_VerifyIffSignatureDiffers ==
    sgStage = "verified" =>
        LET rd == ReadHeader(Slice(sgData[1], 0, STRUCT_SIZE)) IN
        /\ rd.ok =>
            /\ (sgResult = "SignatureVerificationFailed")
                 <=> (RefSignature(sgAlgo, rd.value, PayloadOf(sgData)) # rd.value.signature)
            /\ (sgResult = "Ok")
                 <=> (RefSignature(sgAlgo, rd.value, PayloadOf(sgData)) = rd.value.signature)
        /\ (sgGhost.signed /\ ~sgGhost.tampered) => sgResult = "Ok"

\* A signed, unmodified message with a payload was verified.
C9_Witness ==
    /\ sgStage = "verified"
    /\ sgGhost.signed
    /\ ~sgGhost.tampered
    /\ sgResult = "Ok"
    /\ PayloadOf(sgData) # <<>>

(***************************************************************************)
(* Properties of message encryption (SpecEncrypt).                         *)
(***************************************************************************)
\* C6: within one session no two encrypted messages carry the same nonce.
C6_NoncesNeverRepeat ==
    \A i, j \in 1 .. Len(encSent) :
        i # j => encSent[i].header.nonce # encSent[j].header.nonce

\* C7 as stated: the associated data is the transform-header bytes after the
\* signature and the nonce fields.
C7_AadAfterSignatureAndNonce ==
    \A i \in 1 .. Len(encSent) :
        encSent[i].aad = Slice(WriteEncryptedHeader(encSent[i].header),
                               MAGIC_SIZE + SIGNATURE_SIZE + NONCE_SIZE, ENC_STRUCTURE_SIZE)

\* C7 (amended): the associated data is exactly the transform-header bytes
\* after the signature field: the nonce, the original message size, the
\* reserved field, the flags and the session id.
C7_AadAfterSignature ==
    \A i \in 1 .. Len(encSent) :
        LET e == encSent[i] IN
        /\ e.aad = Slice(WriteEncryptedHeader(e.header),
                         MAGIC_SIZE + SIGNATURE_SIZE, ENC_STRUCTURE_SIZE)
        /\ e.aad = e.header.nonce \o LE(e.header.original_message_size, 4)
                   \o <<0, 0>> \o <<1, 0>> \o LE(e.header.session_id, 8)
        /\ Len(e.aad) = AEAD_BYTES_SIZE

\* A message was encrypted and its tag placed in the header.
C7_Witness ==
    /\ Len(encSent) >= 1
    /\ encSent[1].header.signature # 0
    /\ encSent[1].header.nonce # Zeros(NONCE_SIZE)

(***************************************************************************)
(* Properties of the codec (SpecCodec).                                    *)
(***************************************************************************)
\* C10: for every well-formed value m of every structure, encoding m
\* succeeds and decoding the bytes gives a value equal to m.
C10_RoundTrip ==
    /\ cdStage \notin {"failed", "panicked"}
    /\ cdStage = "decoded" => cdOut = [ok |-> TRUE, value |-> cdValue]

(***************************************************************************)
(* Properties of chained lists (SpecChain, SpecChainFair).                 *)
(***************************************************************************)
\* The next_entry_offset field of the element that starts at position p.
NextEntryOffsetAt(p) == FromLE(Slice(chStream, p, p + CHAINED_ITEM_PREFIX_SIZE))

\* The largest element of a non-empty set of positions.
MaxPos(S) == CHOOSE p \in S : \A q \in S : q <= p

\* C11: in the bytes written for a non-empty list, every element's bytes
\* follow its next_entry_offset field, the last element's field is 0 and
\* nothing follows it, and each other element's field is the distance from
\* its start to the start of the next element, which is the first multiple
\* of the list's alignment (4, or 8 for directory information) at or after
\* the element's end.
C11_ChainLayout ==
    (chStage = "written" /\ ~chCorrupted /\ chSrc # <<>>) =>
        LET n == Len(chSrc)
            pad == OffsetPad(chT)
            st == ChainStarts(chStream, chBase, n)
            end(i) == st[i] + CHAINED_ITEM_PREFIX_SIZE + Len(WriteItem(chT, chSrc[i]).bytes)
        IN  /\ st[1] = chBase
            /\ \A i \in 1 .. n :
                 Slice(chStream, st[i] + CHAINED_ITEM_PREFIX_SIZE, end(i))
                   = WriteItem(chT, chSrc[i]).bytes
            /\ NextEntryOffsetAt(st[n]) = 0
            /\ end(n) = Len(chStream)
            /\ \A i \in 1 .. n - 1 :
                 /\ NextEntryOffsetAt(st[i]) = st[i + 1] - st[i]
                 /\ NextEntryOffsetAt(st[i]) # 0
                 /\ st[i + 1] % pad = 0
                 /\ st[i + 1] >= end(i)
                 /\ st[i + 1] - end(i) < pad

\* A list of directory names of the greatest length was written from an
\* unaligned position, padding after its first element.
C11_Witness ==
    /\ chStage = "written"
    /\ ~chCorrupted
    /\ chT = "FileNamesInformation"
    /\ chBase = 2
    /\ Len(chSrc) = MaxItems
    /\ NextEntryOffsetAt(chBase) = 14

\* C12: reading a chained list from a finite stream ends; the reader moves
\* forward with every element, and a list is returned only when the last
\* element read, and no element before it, has next_entry_offset 0.
C12_ReadTerminates ==
    /\ (chStage \in {"written", "reading"}) ~> (chStage \in {"ok", "err"})
    /\ [](chStage = "reading" => \A p \in chStarts : p < chPos)
    /\ []((chStage = "ok" /\ chValues # <<>>) =>
             /\ NextEntryOffsetAt(MaxPos(chStarts)) = 0
             /\ \A p \in chStarts \ {MaxPos(chStarts)} : NextEntryOffsetAt(p) # 0)
    /\ [](chStage = "err" => chResult \in {"AssertFail", "Io", "Item"})

\* The reader followed an offset past the end of the stream and stopped there.
C12_Witness ==
    /\ chStage = "err"
    /\ chResult = "Io"
    /\ Len(chValues) >= 1
    /\ chPos >= Len(chStream)

\* C13: a list is returned only if every element read started at a multiple
\* of the list's alignment, and a read that comes to an element at any other
\* position fails with the alignment error, no value taken from there.
C13_MisalignedRejected ==
    LET misaligned == {p \in chStarts : p % OffsetPad(chT) # 0} IN
    /\ chStage = "ok" => misaligned = {}
    /\ (chStage \in {"ok", "err"} /\ misaligned # {}) =>
          chStage = "err" /\ chResult = "AssertFail"
    /\ Len(chValues) <= Cardinality(chStarts \ misaligned)

\* The second element of a list was found at an unaligned position.
C13_Witness ==
    /\ chStage = "err"
    /\ chResult = "AssertFail"
    /\ Len(chValues) = 1
    /\ chPos % OffsetPad(chT) # 0

(***************************************************************************)
(* Properties of the ACL ordering (SpecAcl).                               *)
(***************************************************************************)
AclOrdered == aclLastOp \in {"order_aces", "insert_ace"}

\* C14: after order_aces, and after insert_ace (which pushes and then
\* calls order_aces), is_ace_sorted holds of the ACL.
C14_SortedAfterOrdering == AclOrdered => IsAceSorted(aclAce)

\* A case of C14: the vector handed to the sort was out of order.
C14_Witness ==
    /\ AclOrdered
    /\ ~IsAceSorted(aclPrev)
    /\ IsAceSorted(aclAce)
    /\ Len(aclAce) = MaxAces

\* C15: after order_aces every explicit ACE precedes every inherited one,
\* and among the explicit ACEs every access-denied ACE precedes every
\* access-allowed ACE.
C15_ExplicitFirstDeniedFirst ==
    AclOrdered =>
        \A i, j \in 1..Len(aclAce) :
            /\ (~aclAce[i].inherited /\ aclAce[j].inherited) => i < j
            /\ ( /\ ~aclAce[i].inherited /\ ~aclAce[j].inherited
                 /\ aclAce[i].kind = "AccessDenied"
                 /\ aclAce[j].kind = "AccessAllowed" ) => i < j

\* A case of C15: an inherited ACE and an explicit access-allowed ACE came
\* in ahead of an explicit access-denied ACE.
C15_Witness ==
    /\ aclLastOp = "order_aces"
    /\ Len(aclPrev) = 3
    /\ aclPrev[1].inherited
    /\ ~aclPrev[2].inherited /\ aclPrev[2].kind = "AccessAllowed"
    /\ ~aclPrev[3].inherited /\ aclPrev[3].kind = "AccessDenied"
    /\ aclAce[1] = aclPrev[3]
    /\ aclAce[3] = aclPrev[1]

\* The classes of ACEs the comparator holds equal: all inherited ACEs, the
\* explicit access-allowed ACEs, the other explicit ACEs.
AceClass(ace) ==
    IF ace.inherited THEN "inherited"
    ELSE IF IsAccessAllowed(ace) THEN "explicit allowed" ELSE "explicit other"

AceClasses == {"inherited", "explicit allowed", "explicit other"}

OfClass(aces, c) == SelectSeq(aces, LAMBDA a : AceClass(a) = c)

\* C16: order_aces is stable (ACEs that compare equal keep their relative
\* order), neither adds nor removes an ACE, and applied a second time
\* changes nothing.
C16_StableAndIdempotent ==
    AclOrdered =>
        /\ Len(aclAce) = Len(aclPrev)
        /\ \A c \in AceClasses : OfClass(aclAce, c) = OfClass(aclPrev, c)
        /\ OrderAces(aclAce) = aclAce

\* A case of C16: two different inherited ACEs and two different explicit
\* ACEs of one kind were reordered around each other, each pair keeping its
\* order.
C16_Witness ==
    /\ aclLastOp = "order_aces"
    /\ aclAce # aclPrev
    /\ \E c \in AceClasses :
        /\ Len(OfClass(aclPrev, c)) = 2
        /\ OfClass(aclPrev, c)[1] # OfClass(aclPrev, c)[2]
        /\ OfClass(aclAce, c) = OfClass(aclPrev, c)

(***************************************************************************)
(* Properties of the security descriptor (SpecSd).                         *)
(***************************************************************************)
\* The two signals of the descriptor received, for the SACL and the DACL.
SdControl == FromLE(Slice(sdBytes, 2, 4))
SdSaclDisagree == (FromLE(Slice(sdBytes, 12, 16)) # 0) # SaclPresent(SdControl)
SdDaclDisagree == (FromLE(Slice(sdBytes, 16, 20)) # 0) # DaclPresent(SdControl)

\* C17: decoding a security descriptor fails whenever the presence bit of
\* the control field and the non-zero-ness of the offset disagree, for the
\* SACL or for the DACL; a descriptor that is returned has each ACL exactly
\* when its presence bit is set.
C17_DisagreementRejected ==
    sdStage = "decoded" =>
        /\ (SdSaclDisagree \/ SdDaclDisagree) => ~sdResult.ok
        /\ sdResult.ok =>
            /\ sdResult.value.sacl.some = SaclPresent(sdResult.value.control)
            /\ sdResult.value.dacl.some = DaclPresent(sdResult.value.control)

\* A case of C17: a self-relative descriptor of revision 1 whose SACL offset
\* is set over a well-formed ACL while the control field says there is no
\* SACL, everything else in agreement, was refused.
C17_Witness ==
    /\ sdStage = "decoded"
    /\ sdBytes[1] = 1
    /\ SelfRelative(SdControl)
    /\ FromLE(Slice(sdBytes, 4, 8)) = 0
    /\ FromLE(Slice(sdBytes, 8, 12)) = 0
    /\ SdSaclDisagree
    /\ ~SaclPresent(SdControl)
    /\ ~SdDaclDisagree
    /\ ~DaclPresent(SdControl)
    /\ ReadAcl(sdBytes, SD_HEADER_SIZE).ok
    /\ ~sdResult.ok

(***************************************************************************)
(* Properties of plain messages (SpecPlain).                               *)
(***************************************************************************)
\* The command of the header is the command of the content; the Error
\* variant has no command of its own.
CommandMatchesContent(msg) ==
    msg.content.variant = "Error" \/ msg.header.command = AssociatedCmd(msg.content)

\* C18: in every plain message that is encoded or decoded, the command in
\* the header equals the command associated with the content variant, error
\* responses excepted.
C18_CommandMatchesContent ==
    /\ (pmMsg.built /\ pmStage \in {"written", "read"}) => CommandMatchesContent(pmMsg)
    /\ (pmStage = "read" /\ pmOut.ok) => CommandMatchesContent(pmOut.value)

(***************************************************************************)
(* Properties of the header's two forms (SpecHeader).                      *)
(***************************************************************************)
\* The header carries async_id and no tree_id when the async_command flag
\* is set, tree_id and no async_id when it is clear.
ExactlyOneId(h) ==
    IF AsyncCommand(h.flags)
    THEN h.async_id.some /\ ~h.tree_id.some
    ELSE h.tree_id.some /\ ~h.async_id.some

\* C19: every plain header that is encoded or decoded carries exactly one
\* of tree_id and async_id: async_id if and only if the async_command flag
\* is set, tree_id if and only if it is clear.
C19_ExactlyOneId ==
    /\ hdStage = "written" => ExactlyOneId(hdHeader)
    /\ (hdStage = "read" /\ hdOut.ok) => ExactlyOneId(hdOut.value)

(***************************************************************************)
(* Properties of negotiate contexts (SpecNegCtx).                          *)
(***************************************************************************)
\* The type and the payload of the context received.
NcReceivedType == FromLE(Slice(ncBytes, 0, 2))
NcReceivedPayload ==
    Slice(ncBytes, NEG_CTX_HEADER_SIZE, NEG_CTX_HEADER_SIZE + FromLE(Slice(ncBytes, 2, 4)))

\* C20: a negotiate context whose type is not one of the known context
\* types is decoded successfully with its payload kept as opaque bytes, and
\* re-encoding it yields the same bytes.
C20_UnknownContextPreserved ==
    (ncStage \in {"decoded", "encoded"} /\ NcReceivedType \notin NegotiateContextTypes) =>
        /\ ncOut.ok
        /\ ncOut.value.context_type = NcReceivedType
        /\ ncOut.value.data = NcReceivedPayload
        /\ ncStage = "encoded" => ncEncoded = ncBytes

(***************************************************************************)
(* Properties of create contexts (SpecCreateCtx).                          *)
(***************************************************************************)
\* The name and the data of a well-laid-out context received: name at 16,
\* data at 24.
CcWellLaidOut ==
    /\ FromLE(Slice(ccBytes, 4, 6)) = 16
    /\ FromLE(Slice(ccBytes, 10, 12)) = 24
    /\ 24 + FromLE(Slice(ccBytes, 12, 16)) <= Len(ccBytes)
CcReceivedName == Slice(ccBytes, 16, 16 + FromLE(Slice(ccBytes, 6, 8)))
CcReceivedData == Slice(ccBytes, 24, 24 + FromLE(Slice(ccBytes, 12, 16)))

\* C21: a create context whose name is not one of the known context names
\* is decoded successfully with its data retained as raw bytes.
C21_UnknownCreateContextRetained ==
    (ccStage = "decoded" /\ CcWellLaidOut /\ CcReceivedName \notin CreateContextNames) =>
        /\ ccOut.ok
        /\ ccOut.value.name = CcReceivedName
        /\ ccOut.value.data = CcReceivedData

C24_TotalSizeIsEncodedLength ==
    cmStage = "encoded" => cmTotal = Len(cmBytes)

\* C25: a version 3 referral entry with the NameListReferral flag clear is
\* read in the DFS-paths layout and one with the flag set in the
\* DC-references layout.
C25_LayoutFollowsNameListReferral ==
    dfStage = "decoded" =>
        /\ (~dfEntry.name_list_referral /\ dfEntry.layout = "DfsPaths") =>
              /\ dfOut.ok
              /\ dfOut.value.variant = "DfsPath"
              /\ dfOut.value.dfs_path = dfEntry.dfs_path
              /\ dfOut.value.network_address = dfEntry.network_address
        /\ (dfEntry.name_list_referral /\ dfEntry.layout = "DCRefs") =>
              /\ dfOut.ok
              /\ dfOut.value.variant = "NetworkAddress"
              /\ dfOut.value.special_name = dfEntry.special_name
              /\ dfOut.value.expanded_names = dfEntry.expanded_names

\* The SIDs given both to --remove-dacl and to --add-dacl.
SsBothSids ==
    {s \in DaclSids : (\E i \in 1 .. Len(ssRemove) : ssRemove[i] = s)
                      /\ (\E j \in 1 .. Len(ssAdd) : ssAdd[j].sid = s)}
\* The --add-dacl entry that takes effect for a SID none of whose access
\* ACEs is left: the first one, or with --force the last one.
SsEffectiveAdd(s) ==
    LET js == {j \in 1 .. Len(ssAdd) : ssAdd[j].sid = s}
        j == IF ssForce THEN CHOOSE k \in js : \A l \in js : l <= k
             ELSE CHOOSE k \in js : \A l \in js : k <= l
    IN [inherited |-> FALSE, kind |-> ssAdd[j].allow, sid |-> s, mask |-> ssAdd[j].mask]

C28_NoChannelAfterLogoff ==
    \A i \in 1 .. Len(hist.bound) : hist.bound[i].state = "Ready"

\* C27: a message is handed to the handler of the channel it names: the
\* primary for no id or the primary's id, the channel's own handler for an
\* id a bind had returned, and ChannelNotFound for an id no bind was given.
C27_RoutedToNamedChannel ==
    \A p \in Callers :
        (thr[p].op = "send" /\ thr[p].pc = "done") =>
            /\ thr[p].chan \in {NoChannelId, FIRST_CHANNEL_ID} =>
                  thr[p].res = "Ok" /\ thr[p].by = FIRST_CHANNEL_ID
            /\ thr[p].known => thr[p].res = "Ok" /\ thr[p].by = thr[p].chan
            /\ thr[p].chan >= channelCounter => thr[p].res = "ChannelNotFound"
C27_Witness ==
    \E p, q \in Callers :
        /\ thr[p].op = "send" /\ thr[p].pc = "done" /\ thr[p].known
        /\ thr[p].by = thr[p].chan /\ thr[p].chan # FIRST_CHANNEL_ID
        /\ thr[q].op = "send" /\ thr[q].pc = "done" /\ thr[q].res = "ChannelNotFound"

\* C29: decoding does not panic: an output buffer that is not a well-formed
\* structure yields an error returned to the caller.
C29_DecodeNeverPanics ==
    fsStage = "parsed" => ~fsOut.panic

\* C30: once the copy has ended, with success or with a failure, the
\* progress reporter terminates.
C30_ReporterTerminates ==
    (pgCopy \in {"ok", "failed"}) ~> (pgReporter = "finished")

====
